---- MODULE Spec2Model ----
(***************************************************************************)
(* Model of the intersection-splitter library: the three splitters         *)
(* (splitIntersectionsShallow, BiggestIntersectionsSplitter,               *)
(* WeightedIntersectionsSplitter), the set/array adapters and              *)
(* addMaxDepthToNodes.                                                     *)
(*                                                                         *)
(* JavaScript Sets and Maps iterate in insertion order, and the splitters  *)
(* depend on that order (tie-breaks, order of imports).  A JS Set or Array *)
(* is therefore a sequence, and a JS Map is a sequence of records          *)
(* [k |-> key, v |-> value].  Set objects are compared by identity in the  *)
(* source; the identity of a working set is the position of its node in    *)
(* the node list.  Elements are the integers 1..MaxElem (MaxElem <= 9, so  *)
(* the default JS sort order on them is the numeric order).                *)
(***************************************************************************)
EXTENDS Integers, Sequences, FiniteSets, TLC

\* ---------------------------------------------------------------- bounds
MaxElem == 3
MaxLen == 3
MaxArrayLen == 2
MaxSets == 3
MaxWeightedSets == 4
MaxNodes == 20

VARIABLES
    alg,        \* "Shallow" | "Biggest" | "Weighted": the splitter called
    entry,      \* "sets" | "arrays": the shape of the caller's collections
    sort,       \* BiggestIntersectionsSplitter's constructor argument
    primary,    \* name of the primary weight function
    secondary,  \* name of the secondary weight function
    input,      \* the caller's collections, in the caller's iteration order
    nodes,      \* the node list (setNodeMap values / arrayNodes)
    idx,        \* the four indexes of the Weighted splitter, and its error flag
    pc,         \* "call" | "loop" | "depth" | "done" | "error"
    last,       \* what the last step extracted (history, for the properties)
    metric      \* what the last call of GetNodeMetrics returned or threw

vars == <<alg, entry, sort, primary, secondary, input, nodes, idx, pc, last, metric>>

Elems == 1..MaxElem

\* ------------------------------------------------- JS containers, in order
\* Array.prototype.includes / Set.prototype.has
Has(s, x) == \E i \in 1..Len(s) : s[i] = x

\* Set.prototype.delete / filter out a value
Remove(s, x) == SelectSeq(s, LAMBDA y : y # x)

\* Set.prototype.add
Add(s, x) == IF Has(s, x) THEN s ELSE Append(s, x)

\* Map.prototype.has
MapHas(m, key) == \E i \in 1..Len(m) : m[i].k = key

\* Map.prototype.get (of a key that is present)
MapGet(m, key) == m[CHOOSE i \in 1..Len(m) : m[i].k = key].v

\* Map.prototype.set: an existing key keeps its position
MapSet(m, key, val) ==
    IF MapHas(m, key)
    THEN [i \in 1..Len(m) |-> IF m[i].k = key THEN [k |-> key, v |-> val] ELSE m[i]]
    ELSE Append(m, [k |-> key, v |-> val])

\* Map.prototype.delete
MapDelete(m, key) == SelectSeq(m, LAMBDA e : e.k # key)

\* Map.prototype.keys, in order
MapKeys(m) == [i \in 1..Len(m) |-> m[i].k]

\* the elements of a sequence, as a set
Range(s) == {s[i] : i \in 1..Len(s)}

\* new Set(array): first occurrences, in order
RECURSIVE Dedup(_)
Dedup(s) ==
    IF s = <<>> THEN <<>>
    ELSE LET front == Dedup(SubSeq(s, 1, Len(s) - 1))
         IN  Add(front, s[Len(s)])

\* Array.prototype.sort() on 1..MaxElem (insertion sort; stable)
RECURSIVE SortArray(_)
SortArray(s) ==
    IF Len(s) <= 1 THEN s
    ELSE LET front == SortArray(SubSeq(s, 1, Len(s) - 1))
             x == s[Len(s)]
             lo == SelectSeq(front, LAMBDA y : y <= x)
             hi == SelectSeq(front, LAMBDA y : y > x)
         IN  lo \o <<x>> \o hi

\* Math.max(...array) of a non-empty array of integers
MaxOf(s) == CHOOSE x \in Range(s) : \A y \in Range(s) : y <= x

\* --------------------------------------------------------- weight functions
WeightNames ==
    {"elementsCount", "setsCount", "productSetsElementsCount",
     "elementsCountReverse", "setsCountReverse", "productSetsElementsCountReverse"}

weightFunctions(name, intersectingElementsCount, intersectingSetsCount) ==
    CASE name = "elementsCount" -> intersectingElementsCount
      [] name = "setsCount" -> intersectingSetsCount
      [] name = "productSetsElementsCount" ->
            intersectingElementsCount * intersectingSetsCount
      [] name = "elementsCountReverse" -> 0 - intersectingElementsCount
      [] name = "setsCountReverse" -> 0 - intersectingSetsCount
      [] name = "productSetsElementsCountReverse" ->
            (0 - intersectingElementsCount) * intersectingSetsCount

primaryWeight(e, s) == weightFunctions(primary, e, s)
secondaryWeight(e, s) == weightFunctions(secondary, e, s)

\* The bijective pair of the README and the tests:
\* join = (array) => array.sort().join('\x00'), split = (string) => string.split('\x00').
\* A key is the sorted sequence of the elements.
join(array) == SortArray(array)
split(key) == key

\* ------------------------------------------------------------------ helpers.ts
cloneSet(set) == set

intersectSets(set1, set2) ==
    LET s1 == IF Len(set1) <= Len(set2) THEN set1 ELSE set2
        s2 == IF Len(set1) <= Len(set2) THEN set2 ELSE set1
    IN  SelectSeq(s1, LAMBDA element : Has(s2, element))

\* ------------------------------------------- WeightedIntersectionsSplitter
\* The four indexes, with working sets named by node position:
\*   intersectionMap       key -> array of pairs <<set1, set2>>
\*   intersectionMapSet    key -> Map(set -> number of recorded pairs holding it)
\*   setToIntersectionMap  set -> Set(key)
\*   weightIntersectionMap weight -> Set(key)
\* err is set when the source would dereference a missing entry (a TypeError).

addToSetOrCreateKeyInMap(map, key, element) ==
    IF MapHas(map, key)
    THEN MapSet(map, key, Add(MapGet(map, key), element))
    ELSE MapSet(map, key, <<element>>)

\* removeFromSetOrDeleteFromMap that deletes the key although other elements
\* are left under it
removeFromSetOrDeleteFromMapAlways(map, key, element) == MapDelete(map, key)

\* of a key that is present; the callers raise the error otherwise
removeFromSetOrDeleteFromMap(map, key, element) ==
    LET elements == MapGet(map, key)
    IN  IF Len(elements) > 1
        THEN MapSet(map, key, Remove(elements, element))
        ELSE MapDelete(map, key)

\* addToIntersectingMapSets that never counts beyond 1
addToIntersectingMapSetsOnce(intersectingMapSets, set) == MapSet(intersectingMapSets, set, 1)

addToIntersectingMapSets(intersectingMapSets, set) ==
    IF MapHas(intersectingMapSets, set)
    THEN MapSet(intersectingMapSets, set, MapGet(intersectingMapSets, set) + 1)
    ELSE MapSet(intersectingMapSets, set, 1)

\* pushPair that records only the first pair of a key
pushPairFirst(intersectionMap, intersectionId, pair) == IF MapHas(intersectionMap, intersectionId) THEN intersectionMap ELSE MapSet(intersectionMap, intersectionId, <<pair>>)

pushPair(intersectionMap, intersectionId, pair) ==
    IF MapHas(intersectionMap, intersectionId)
    THEN MapSet(intersectionMap, intersectionId,
                Append(MapGet(intersectionMap, intersectionId), pair))
    ELSE MapSet(intersectionMap, intersectionId, <<pair>>)

RECURSIVE createIntersectionMapLoop(_, _, _, _)
createIntersectionMapLoop(sets, i, j, intersectionMap) ==
    IF i > Len(sets) THEN intersectionMap
    ELSE IF j > Len(sets)
    THEN createIntersectionMapLoop(sets, i + 1, i + 2, intersectionMap)
    ELSE LET intersectedSet == intersectSets(sets[i], sets[j])
         IN  createIntersectionMapLoop(sets, i, j + 1,
                IF Len(intersectedSet) > 0
                THEN pushPair(intersectionMap, join(intersectedSet), <<i, j>>)
                ELSE intersectionMap)

createIntersectionMap(sets) == createIntersectionMapLoop(sets, 1, 2, <<>>)

RECURSIVE countPairs(_, _, _)
countPairs(pairs, i, setsMap) ==
    IF i > Len(pairs) THEN setsMap
    ELSE countPairs(pairs, i + 1,
            addToIntersectingMapSets(
                addToIntersectingMapSets(setsMap, pairs[i][1]), pairs[i][2]))

createIntersectionMapSet(intersectionMap) ==
    [i \in 1..Len(intersectionMap) |->
        [k |-> intersectionMap[i].k, v |-> countPairs(intersectionMap[i].v, 1, <<>>)]]

RECURSIVE createSetToIntersectionMapLoop(_, _, _, _)
createSetToIntersectionMapLoop(intersectionMapSet, i, j, setToIntersectionMap) ==
    IF i > Len(intersectionMapSet) THEN setToIntersectionMap
    ELSE IF j > Len(intersectionMapSet[i].v)
    THEN createSetToIntersectionMapLoop(intersectionMapSet, i + 1, 1, setToIntersectionMap)
    ELSE createSetToIntersectionMapLoop(intersectionMapSet, i, j + 1,
            addToSetOrCreateKeyInMap(setToIntersectionMap,
                intersectionMapSet[i].v[j].k, intersectionMapSet[i].k))

createSetToIntersectionMap(intersectionMapSet) ==
    createSetToIntersectionMapLoop(intersectionMapSet, 1, 1, <<>>)

RECURSIVE getWeightIntersectionsMapLoop(_, _, _)
getWeightIntersectionsMapLoop(intersectionMapSet, i, weightIntersectionMap) ==
    IF i > Len(intersectionMapSet) THEN weightIntersectionMap
    ELSE LET intersection == intersectionMapSet[i].k
             weight == primaryWeight(Len(split(intersection)), Len(intersectionMapSet[i].v))
         IN  getWeightIntersectionsMapLoop(intersectionMapSet, i + 1,
                addToSetOrCreateKeyInMap(weightIntersectionMap, weight, intersection))

getWeightIntersectionsMap(intersectionMapSet) ==
    getWeightIntersectionsMapLoop(intersectionMapSet, 1, <<>>)

\* The forEach of getHighestWeightIntersection from position i on: the running
\* maximum changes only on a strictly greater secondary weight.
\* secondaryScan with >= for >: a later intersection of the same secondary
\* weight replaces the earlier one
RECURSIVE secondaryScanLast(_, _, _, _, _)
secondaryScanLast(maxWeightIntersections, intersectionMapSet, i, maxSecondaryWeight, best) ==
    IF i > Len(maxWeightIntersections) THEN best
    ELSE LET intersection == maxWeightIntersections[i]
             w == secondaryWeight(Len(split(intersection)),
                                  Len(MapGet(intersectionMapSet, intersection)))
         IN  IF w >= maxSecondaryWeight
             THEN secondaryScanLast(maxWeightIntersections, intersectionMapSet, i + 1,
                                    w, intersection)
             ELSE secondaryScanLast(maxWeightIntersections, intersectionMapSet, i + 1,
                                    maxSecondaryWeight, best)

RECURSIVE secondaryScan(_, _, _, _, _)
secondaryScan(maxWeightIntersections, intersectionMapSet, i, maxSecondaryWeight, best) ==
    IF i > Len(maxWeightIntersections) THEN best
    ELSE LET intersection == maxWeightIntersections[i]
             w == secondaryWeight(Len(split(intersection)),
                                  Len(MapGet(intersectionMapSet, intersection)))
         IN  IF w > maxSecondaryWeight
             THEN secondaryScan(maxWeightIntersections, intersectionMapSet, i + 1, w, intersection)
             ELSE secondaryScan(maxWeightIntersections, intersectionMapSet, i + 1,
                                maxSecondaryWeight, best)

\* [key, weight, err].  maxSecondaryWeight starts at -Infinity, which every
\* integer weight exceeds: the scan starts from the first intersection's weight.
getHighestWeightIntersection(weightIntersectionsMap, intersectionMapSet) ==
    IF Len(weightIntersectionsMap) = 0
    THEN [key |-> <<>>, weight |-> 0, err |-> TRUE]
    ELSE LET highestWeight == MaxOf(MapKeys(weightIntersectionsMap))
             maxWeightIntersections == MapGet(weightIntersectionsMap, highestWeight)
             first == maxWeightIntersections[1]
         IN  IF Len(maxWeightIntersections) > 1
             THEN IF \E i \in 1..Len(maxWeightIntersections) :
                        ~MapHas(intersectionMapSet, maxWeightIntersections[i])
                  THEN [key |-> first, weight |-> highestWeight, err |-> TRUE]
                  ELSE [key |-> secondaryScan(maxWeightIntersections, intersectionMapSet, 2,
                                    secondaryWeight(Len(split(first)),
                                        Len(MapGet(intersectionMapSet, first))),
                                    first),
                        weight |-> highestWeight, err |-> FALSE]
             ELSE [key |-> first, weight |-> highestWeight, err |-> FALSE]

\* [oai, oas, err]: the loops of getOtherAffectedIntersections over the
\* intersecting sets (i) and over each set's intersections (j).
RECURSIVE otherAffectedLoop(_, _, _, _, _, _, _)
otherAffectedLoop(intersectingSets, setToIntersectionMap, elements, intersectionMapSet, i, j, acc) ==
    IF acc.err \/ i > Len(intersectingSets) THEN acc
    ELSE IF ~MapHas(setToIntersectionMap, intersectingSets[i])
    THEN [acc EXCEPT !.err = TRUE]
    ELSE LET affectedIntersections == MapGet(setToIntersectionMap, intersectingSets[i])
         IN  IF j > Len(affectedIntersections)
             THEN otherAffectedLoop(intersectingSets, setToIntersectionMap, elements,
                                    intersectionMapSet, i + 1, 1, acc)
             ELSE LET intersection == affectedIntersections[j]
                      hit == \E n \in 1..Len(split(intersection)) :
                                Has(elements, split(intersection)[n])
                  IN  IF ~hit
                      THEN otherAffectedLoop(intersectingSets, setToIntersectionMap, elements,
                                             intersectionMapSet, i, j + 1, acc)
                      ELSE IF ~MapHas(intersectionMapSet, intersection)
                      THEN [acc EXCEPT !.err = TRUE]
                      ELSE LET affectedSets == MapKeys(MapGet(intersectionMapSet, intersection))
                               others == SelectSeq(affectedSets,
                                            LAMBDA s : ~Has(intersectingSets, s))
                               RECURSIVE addAll(_, _, _)
                               addAll(to, from, n) ==
                                    IF n > Len(from) THEN to
                                    ELSE addAll(Add(to, from[n]), from, n + 1)
                           IN  otherAffectedLoop(intersectingSets, setToIntersectionMap,
                                    elements, intersectionMapSet, i, j + 1,
                                    [acc EXCEPT !.oai = Add(@, intersection),
                                                !.oas = addAll(@, others, 1)])

getOtherAffectedIntersections(intersectingSets, setToIntersectionMap, highestWeightIntersection, intersectionMapSet) ==
    LET acc == otherAffectedLoop(intersectingSets, setToIntersectionMap,
                    split(highestWeightIntersection), intersectionMapSet, 1, 1,
                    [oai |-> <<>>, oas |-> <<>>, err |-> FALSE])
    IN  [otherAffectedIntersections |-> Remove(acc.oai, highestWeightIntersection),
         otherAffectedSets |-> acc.oas,
         err |-> acc.err]

\* The operations below thread the indexes as one record
\* R = [im, ims, s2i, wim, err, pairs]; once err is set nothing more is done
\* (the exception has left splitSets).

removeOtherAffectedSetFromMaps(R, key, set) ==
    IF R.err THEN R
    ELSE IF ~MapHas(R.ims, key) THEN [R EXCEPT !.err = TRUE]
    ELSE LET setMap == MapGet(R.ims, key)
             \* undefined > 1 is false
             setCount == IF MapHas(setMap, set) THEN MapGet(setMap, set) ELSE 0
         IN  IF setCount > 1
             THEN [R EXCEPT !.ims = MapSet(R.ims, key, MapSet(setMap, set, setCount - 1))]
             ELSE LET intersectingElementsCount == Len(split(key))
                      intersectingSetsCount == Len(setMap)
                      weight == primaryWeight(intersectingElementsCount, intersectingSetsCount)
                      updatedWeight ==
                          primaryWeight(intersectingElementsCount, intersectingSetsCount - 1)
                  IN  IF ~MapHas(R.wim, weight) THEN [R EXCEPT !.err = TRUE]
                      ELSE LET wim1 == removeFromSetOrDeleteFromMap(R.wim, weight, key)
                               wim2 == IF intersectingSetsCount > 1
                                       THEN addToSetOrCreateKeyInMap(wim1, updatedWeight, key)
                                       ELSE wim1
                           IN  IF ~MapHas(R.s2i, set)
                               THEN [R EXCEPT !.wim = wim2, !.err = TRUE]
                               ELSE LET left == MapDelete(setMap, set)
                                    IN  [R EXCEPT
                                          !.wim = wim2,
                                          !.s2i = removeFromSetOrDeleteFromMap(R.s2i, set, key),
                                          !.ims = IF Len(left) = 0
                                                  THEN MapDelete(R.ims, key)
                                                  ELSE MapSet(R.ims, key, left)]

\* the filter callback of removeUpdatedFromMaps over the pairs of one
\* other-affected intersection; kept collects the pairs the filter returns
\* the filter of removeUpdatedFromMaps that drops only the pairs with a
\* directly participating set
RECURSIVE filterPairsParticipating(_, _, _, _, _, _, _)
filterPairsParticipating(R, otherAffectedIntersection, possiblyAffected, i, intersectingSets, otherAffectedSets, kept) ==
    IF R.err THEN R
    ELSE IF i > Len(possiblyAffected)
    THEN [R EXCEPT !.im = IF Len(kept) > 0
                          THEN MapSet(R.im, otherAffectedIntersection, kept)
                          ELSE MapDelete(R.im, otherAffectedIntersection)]
    ELSE LET set1 == possiblyAffected[i][1]
             set2 == possiblyAffected[i][2]
         IN  IF Has(intersectingSets, set1) \/ Has(intersectingSets, set2)
             THEN filterPairsParticipating(
                    removeOtherAffectedSetFromMaps(
                        removeOtherAffectedSetFromMaps(
                            [R EXCEPT !.pairs = Append(@, <<set1, set2>>)],
                            otherAffectedIntersection, set1),
                        otherAffectedIntersection, set2),
                    otherAffectedIntersection, possiblyAffected, i + 1,
                    intersectingSets, otherAffectedSets, kept)
             ELSE filterPairsParticipating(R, otherAffectedIntersection, possiblyAffected, i + 1,
                    intersectingSets, otherAffectedSets,
                    Append(kept, <<set1, set2>>))

RECURSIVE filterPairs(_, _, _, _, _, _, _)
filterPairs(R, otherAffectedIntersection, possiblyAffected, i, intersectingSets, otherAffectedSets, kept) ==
    IF R.err THEN R
    ELSE IF i > Len(possiblyAffected)
    THEN [R EXCEPT !.im = IF Len(kept) > 0
                          THEN MapSet(R.im, otherAffectedIntersection, kept)
                          ELSE MapDelete(R.im, otherAffectedIntersection)]
    ELSE LET set1 == possiblyAffected[i][1]
             set2 == possiblyAffected[i][2]
         IN  IF \/ Has(intersectingSets, set1)
                \/ Has(intersectingSets, set2)
                \/ (Has(otherAffectedSets, set1) /\ Has(otherAffectedSets, set2))
             THEN filterPairs(
                    removeOtherAffectedSetFromMaps(
                        removeOtherAffectedSetFromMaps(
                            [R EXCEPT !.pairs = Append(@, <<set1, set2>>)],
                            otherAffectedIntersection, set1),
                        otherAffectedIntersection, set2),
                    otherAffectedIntersection, possiblyAffected, i + 1,
                    intersectingSets, otherAffectedSets, kept)
             ELSE filterPairs(R, otherAffectedIntersection, possiblyAffected, i + 1,
                    intersectingSets, otherAffectedSets,
                    Append(kept, <<set1, set2>>))

RECURSIVE removeOtherAffected(_, _, _, _, _)
removeOtherAffected(R, otherAffectedIntersections, i, intersectingSets, otherAffectedSets) ==
    IF R.err \/ i > Len(otherAffectedIntersections) THEN R
    ELSE IF ~MapHas(R.im, otherAffectedIntersections[i]) THEN [R EXCEPT !.err = TRUE]
    ELSE removeOtherAffected(
            filterPairs(R, otherAffectedIntersections[i],
                        MapGet(R.im, otherAffectedIntersections[i]), 1,
                        intersectingSets, otherAffectedSets, <<>>),
            otherAffectedIntersections, i + 1, intersectingSets, otherAffectedSets)

RECURSIVE removeFromSets(_, _, _, _)
removeFromSets(R, intersectingSets, i, highestWeightIntersection) ==
    IF R.err \/ i > Len(intersectingSets) THEN R
    ELSE IF ~MapHas(R.s2i, intersectingSets[i]) THEN [R EXCEPT !.err = TRUE]
    ELSE removeFromSets(
            [R EXCEPT !.s2i = removeFromSetOrDeleteFromMap(
                                  @, intersectingSets[i], highestWeightIntersection)],
            intersectingSets, i + 1, highestWeightIntersection)

\* removeUpdatedFromMaps without intersectionMap.delete(highestWeightIntersection)
removeUpdatedFromMapsKeepKey(R, highestWeightIntersection, intersectingSets, otherAffectedIntersections, otherAffectedSets, highestWeight) ==
    LET R1 == removeFromSets(
                [R EXCEPT !.ims = MapDelete(@, highestWeightIntersection)],
                intersectingSets, 1, highestWeightIntersection)
        R2 == IF R1.err THEN R1
              ELSE IF ~MapHas(R1.wim, highestWeight) THEN [R1 EXCEPT !.err = TRUE]
              ELSE [R1 EXCEPT !.wim = removeFromSetOrDeleteFromMap(
                                          @, highestWeight, highestWeightIntersection)]
    IN  removeOtherAffected(R2, otherAffectedIntersections, 1,
                            intersectingSets, otherAffectedSets)

\* returns R with R.pairs the intersectingPairs of the source
removeUpdatedFromMaps(R, highestWeightIntersection, intersectingSets, otherAffectedIntersections, otherAffectedSets, highestWeight) ==
    LET R1 == removeFromSets(
                [R EXCEPT !.im = MapDelete(@, highestWeightIntersection),
                          !.ims = MapDelete(@, highestWeightIntersection)],
                intersectingSets, 1, highestWeightIntersection)
        R2 == IF R1.err THEN R1
              ELSE IF ~MapHas(R1.wim, highestWeight) THEN [R1 EXCEPT !.err = TRUE]
              ELSE [R1 EXCEPT !.wim = removeFromSetOrDeleteFromMap(
                                          @, highestWeight, highestWeightIntersection)]
    IN  removeOtherAffected(R2, otherAffectedIntersections, 1,
                            intersectingSets, otherAffectedSets)

\* sets[s] is the current content of working set s
addUpdateToMaps(R, sets, set1, set2) ==
    IF R.err THEN R
    ELSE LET intersection == intersectSets(sets[set1], sets[set2])
             intersectionId == join(intersection)
         IN  IF Len(intersection) = 0 THEN R
             ELSE LET im1 == pushPair(R.im, intersectionId, <<set1, set2>>)
                      known == MapHas(R.ims, intersectionId)
                      intersectingMapSets ==
                          IF known THEN MapGet(R.ims, intersectionId) ELSE <<>>
                      prevWeight == primaryWeight(Len(intersection), Len(intersectingMapSets))
                      newMapSets ==
                          IF known
                          THEN addToIntersectingMapSets(
                                  addToIntersectingMapSets(intersectingMapSets, set1), set2)
                          ELSE MapSet(MapSet(<<>>, set1, 1), set2, 1)
                      intersectingSetsCount == IF known THEN Len(newMapSets) ELSE 2
                      weight == primaryWeight(Len(intersection), intersectingSetsCount)
                  IN  IF known /\ ~MapHas(R.wim, prevWeight)
                      THEN [R EXCEPT !.im = im1, !.err = TRUE]
                      ELSE LET wim1 == IF known
                                       THEN removeFromSetOrDeleteFromMap(
                                                R.wim, prevWeight, intersectionId)
                                       ELSE R.wim
                           IN  [R EXCEPT
                                 !.im = im1,
                                 !.ims = MapSet(@, intersectionId, newMapSets),
                                 !.wim = addToSetOrCreateKeyInMap(wim1, weight, intersectionId),
                                 !.s2i = addToSetOrCreateKeyInMap(
                                            addToSetOrCreateKeyInMap(@, set1, intersectionId),
                                            set2, intersectionId)]

RECURSIVE addPrevSets(_, _, _, _)
addPrevSets(R, sets, set, newSet) ==
    IF set >= newSet THEN R
    ELSE addPrevSets(addUpdateToMaps(R, sets, set, newSet), sets, set + 1, newSet)

RECURSIVE addPairs(_, _, _, _)
addPairs(R, sets, intersectingPairs, i) ==
    IF i > Len(intersectingPairs) THEN R
    ELSE addPairs(addUpdateToMaps(R, sets, intersectingPairs[i][1], intersectingPairs[i][2]),
                  sets, intersectingPairs, i + 1)

\* prevSets are the working sets 1..newSet-1, in creation order
addUpdatedToMaps(R, sets, newSet, intersectingPairs) ==
    addPairs(addPrevSets(R, sets, 1, newSet), sets, intersectingPairs, 1)

\* ------------------------------------------------------------------ nodes
\* SetNode / ArrayNode: collection is the field `set` or `array`; imports
\* holds positions in the node list.
Node(collection, rest, depth, imports) ==
    [collection |-> collection, rest |-> rest, depth |-> depth, imports |-> imports]

Rests(ns) == [i \in 1..Len(ns) |-> ns[i].rest]

EmptyIndex == [im |-> <<>>, ims |-> <<>>, s2i |-> <<>>, wim |-> <<>>, err |-> FALSE]

\* createSetObjMap that makes no node for a set without elements
createSetObjMapNonEmpty(sets) == LET held == SelectSeq(sets, LAMBDA set : set # <<>>) IN [i \in 1..Len(held) |-> Node(held[i], cloneSet(held[i]), 0, <<>>)]

createSetObjMap(sets) ==
    [i \in 1..Len(sets) |-> Node(sets[i], cloneSet(sets[i]), 0, <<>>)]

\* filterFromSet that deletes nothing
filterFromSetNothing(set, newSet) == set

\* filterFromSet with the callback (element) => !newIntersectingObj.set.has(element)
filterFromSet(set, newSet) == SelectSeq(set, LAMBDA element : ~Has(newSet, element))

\* updateSetObj on nodes whose rest is the caller's set itself (a set node
\* made without cloneSet): what is deleted from rest is deleted from set
updateSetObjShared(ns, set, newNode, newSet, depth) ==
    [nodes |-> [ns EXCEPT ![set] =
                    [@ EXCEPT !.rest = SelectSeq(@, LAMBDA element : ~Has(newSet, element)),
                              !.collection = IF set <= Len(ns) /\ ns[set].depth = 0
                                             THEN SelectSeq(@, LAMBDA element :
                                                                ~Has(newSet, element))
                                             ELSE @,
                              !.imports = Append(@, newNode)]],
     depth |-> IF ns[set].depth >= depth THEN ns[set].depth + 1 ELSE depth]

\* updateSetObj with > for >= in the comparison of the depths
updateSetObjStrict(ns, set, newNode, newSet, depth) ==
    [nodes |-> [ns EXCEPT ![set] =
                    [@ EXCEPT !.rest = SelectSeq(@, LAMBDA element : ~Has(newSet, element)),
                              !.imports = Append(@, newNode)]],
     depth |-> IF ns[set].depth > depth THEN ns[set].depth + 1 ELSE depth]

\* [nodes, depth]
updateSetObj(ns, set, newNode, newSet, depth) ==
    [nodes |-> [ns EXCEPT ![set] =
                    [@ EXCEPT !.rest = filterFromSet(@, newSet),
                              !.imports = Append(@, newNode)]],
     depth |-> IF ns[set].depth >= depth THEN ns[set].depth + 1 ELSE depth]

\* intersectingSets.forEach of splitSets
RECURSIVE updateIntersecting(_, _, _, _, _)
updateIntersecting(acc, intersectingSets, i, newNode, newSet) ==
    IF i > Len(intersectingSets) THEN acc
    ELSE updateIntersecting(
            updateSetObj(acc.nodes, intersectingSets[i], newNode, newSet, acc.depth),
            intersectingSets, i + 1, newNode, newSet)

\* otherAffectedSets.forEach without the test that the set holds every
\* element of the new intersection
RECURSIVE updateOtherAffectedAll(_, _, _, _, _)
updateOtherAffectedAll(acc, otherAffectedSets, i, newNode, newSet) ==
    IF i > Len(otherAffectedSets) THEN acc
    ELSE updateOtherAffectedAll(
            updateSetObj(acc.nodes, otherAffectedSets[i], newNode, newSet, acc.depth),
            otherAffectedSets, i + 1, newNode, newSet)

\* otherAffectedSets.forEach that updates no set
updateOtherAffectedNone(acc, otherAffectedSets, i, newNode, newSet) == acc

\* otherAffectedSets.forEach of splitSets
RECURSIVE updateOtherAffected(_, _, _, _, _)
updateOtherAffected(acc, otherAffectedSets, i, newNode, newSet) ==
    IF i > Len(otherAffectedSets) THEN acc
    ELSE LET set == otherAffectedSets[i]
         IN  updateOtherAffected(
                IF \A n \in 1..Len(newSet) : Has(acc.nodes[set].rest, newSet[n])
                THEN updateSetObj(acc.nodes, set, newNode, newSet, acc.depth)
                ELSE acc,
                otherAffectedSets, i + 1, newNode, newSet)

\* the indexes built before the loop of splitSets
createIndexes(clonedSets) ==
    LET intersectionMap == createIntersectionMap(clonedSets)
        intersectionMapSet == createIntersectionMapSet(intersectionMap)
    IN  [im |-> intersectionMap,
         ims |-> intersectionMapSet,
         s2i |-> createSetToIntersectionMap(intersectionMapSet),
         wim |-> getWeightIntersectionsMap(intersectionMapSet),
         err |-> FALSE]

Raised(ns, ix) == [nodes |-> ns, idx |-> [ix EXCEPT !.err = TRUE], key |-> <<>>]

\* One iteration of the while loop of splitSets: [nodes, idx, key].
splitSetsIteration(ns, ix) ==
    LET sel == getHighestWeightIntersection(ix.wim, ix.ims)
        highestWeightIntersection == sel.key
    IN  IF sel.err \/ ~MapHas(ix.ims, highestWeightIntersection) THEN Raised(ns, ix)
        ELSE
        LET intersectingSets == MapKeys(MapGet(ix.ims, highestWeightIntersection))
            oa == getOtherAffectedIntersections(
                      intersectingSets, ix.s2i, highestWeightIntersection, ix.ims)
        IN  IF oa.err THEN Raised(ns, ix)
            ELSE
            LET R == removeUpdatedFromMaps(
                        [im |-> ix.im, ims |-> ix.ims, s2i |-> ix.s2i, wim |-> ix.wim,
                         err |-> FALSE, pairs |-> <<>>],
                        highestWeightIntersection, intersectingSets,
                        oa.otherAffectedIntersections, oa.otherAffectedSets, sel.weight)
                newNode == Len(ns) + 1
                newSet == split(highestWeightIntersection)
                u1 == updateIntersecting([nodes |-> ns, depth |-> 1],
                                         intersectingSets, 1, newNode, newSet)
                u2 == updateOtherAffected(u1, oa.otherAffectedSets, 1, newNode, newSet)
                ns2 == Append(u2.nodes, Node(newSet, newSet, u2.depth, <<>>))
                R2 == addUpdatedToMaps(R, Rests(ns2), newNode, R.pairs)
            IN  IF R.err \/ R2.err THEN Raised(ns, ix)
                ELSE [nodes |-> ns2,
                      idx |-> [im |-> R2.im, ims |-> R2.ims, s2i |-> R2.s2i,
                               wim |-> R2.wim, err |-> FALSE],
                      key |-> highestWeightIntersection]

\* ------------------------------------------------ shallow-intersections-splitter.ts
RECURSIVE Flatten(_)
Flatten(collections) ==
    IF collections = <<>> THEN <<>>
    ELSE Flatten(SubSeq(collections, 1, Len(collections) - 1)) \o collections[Len(collections)]

\* position of a value in a sequence that holds it
IndexOf(s, x) == CHOOSE i \in 1..Len(s) : s[i] = x

\* first loop of splitIntersectionsSetsShallow over all elements of all sets:
\* [seen, multiple]
RECURSIVE scanSetElements(_, _, _)
scanSetElements(elements, i, acc) ==
    IF i > Len(elements) THEN acc
    ELSE scanSetElements(elements, i + 1,
            [seen |-> Add(acc.seen, elements[i]),
             multiple |-> IF Has(acc.seen, elements[i])
                          THEN Add(acc.multiple, elements[i])
                          ELSE acc.multiple])

\* first loop of splitIntersectionsArrayShallow: multipleArrayElements is an array
RECURSIVE scanArrayElements(_, _, _)
scanArrayElements(elements, i, acc) ==
    IF i > Len(elements) THEN acc
    ELSE scanArrayElements(elements, i + 1,
            IF Has(acc.seen, elements[i])
            THEN [acc EXCEPT !.multiple = Append(@, elements[i])]
            ELSE [acc EXCEPT !.seen = Append(@, elements[i])])

\* the nodes built from the Map element -> singleton node, whose keys are `keys`
shallowNodes(collections, multiple, keys) ==
    LET n == Len(collections)
        root(c) ==
            LET shared == SelectSeq(c, LAMBDA element : Has(multiple, element))
            IN  Node(c,
                     SelectSeq(c, LAMBDA element : ~Has(multiple, element)),
                     0,
                     [k \in 1..Len(shared) |-> n + IndexOf(keys, shared[k])])
    IN  [i \in 1..n |-> root(collections[i])]
        \o [k \in 1..Len(keys) |-> Node(<<keys[k]>>, <<keys[k]>>, 1, <<>>)]

splitIntersectionsSetsShallow(sets) ==
    LET multipleSetElements ==
            scanSetElements(Flatten(sets), 1, [seen |-> <<>>, multiple |-> <<>>]).multiple
    IN  shallowNodes(sets, multipleSetElements, multipleSetElements)

splitIntersectionsArrayShallow(arrays) ==
    LET multipleArrayElements ==
            scanArrayElements(Flatten(arrays), 1, [seen |-> <<>>, multiple |-> <<>>]).multiple
    IN  shallowNodes(arrays, multipleArrayElements, Dedup(multipleArrayElements))

\* ------------------------------------------------------- addMaxDepthToNodes
\* Math.max() of no argument is -Infinity, and -Infinity + 1 is -Infinity
NegInfinity == -1000

\* unImportedNodes.forEach, over the positions `pending`; importedNodes are
\* the positions `done`, of which only the membership is read
RECURSIVE addMaxDepthLoop(_, _, _, _)
addMaxDepthLoop(ns, pending, i, done) ==
    IF i > Len(pending) THEN ns
    ELSE LET n == pending[i]
             importers == {a \in done : Has(ns[a].imports, n)}
             depths == {ns[a].depth : a \in importers}
             max == IF depths = {} THEN NegInfinity
                    ELSE CHOOSE d \in depths : \A e \in depths : e <= d
             depth == IF max = NegInfinity THEN NegInfinity ELSE max + 1
         IN  addMaxDepthLoop([ns EXCEPT ![n].depth = depth], pending, i + 1, done \cup {n})

addMaxDepthToNodes(arrayNodes) ==
    LET positions == [i \in 1..Len(arrayNodes) |-> i]
        unImportedNodes == SelectSeq(positions, LAMBDA i : arrayNodes[i].depth # 0)
        importedNodes == {i \in 1..Len(arrayNodes) : arrayNodes[i].depth = 0}
    IN  addMaxDepthLoop(arrayNodes, unImportedNodes, 1, importedNodes)

\* ----------------------------------------------------------- the adapters
\* arrays.find / setNodes.find return undefined when nothing matches
Undefined == 0

mapArraysToSets(arrays) == [i \in 1..Len(arrays) |-> Dedup(arrays[i])]

mapSetsToArrays(sets) == sets

\* mapSetsToArrayNodes with its loop running from the first node to the last
mapSetsToArrayNodesForward(setNodes, arrays) ==
    [i \in 1..Len(setNodes) |->
        Node(IF i <= Len(arrays) THEN arrays[i] ELSE setNodes[i].collection,
             setNodes[i].rest,
             setNodes[i].depth,
             [k \in 1..Len(setNodes[i].imports) |->
                IF setNodes[i].imports[k] < i THEN setNodes[i].imports[k] ELSE 0])]

\* mapSetsToArrayNodes without arrayNodes.reverse(): the list is returned in the
\* order of the conversion, the last node first
mapSetsToArrayNodesReversed(setNodes, arrays) ==
    LET n == Len(setNodes)
    IN  [j \in 1..n |->
            LET i == n + 1 - j
            IN  Node(IF i <= Len(arrays) THEN arrays[i] ELSE setNodes[i].collection,
                     setNodes[i].rest,
                     setNodes[i].depth,
                     [k \in 1..Len(setNodes[i].imports) |->
                        IF setNodes[i].imports[k] > i
                        THEN n + 1 - setNodes[i].imports[k] ELSE 0])]

\* The loop runs from the last node to the first and resolves an import among
\* the nodes already converted, which are the nodes at greater positions.
\* The first `roots` nodes get the caller's collections back from the map.
mapSetsToArrayNodes(setNodes, arrays) ==
    [i \in 1..Len(setNodes) |->
        Node(IF i <= Len(arrays) THEN arrays[i] ELSE setNodes[i].collection,
             setNodes[i].rest,
             setNodes[i].depth,
             [k \in 1..Len(setNodes[i].imports) |->
                IF setNodes[i].imports[k] > i THEN setNodes[i].imports[k] ELSE Undefined])]

\* mapArraysToSetNodes with its loop running from the first node to the last
mapArraysToSetNodesForward(arrayNodes, sets) ==
    [i \in 1..Len(arrayNodes) |->
        Node(IF i <= Len(sets) THEN sets[i] ELSE Dedup(arrayNodes[i].collection),
             Dedup(arrayNodes[i].rest),
             arrayNodes[i].depth,
             [k \in 1..Len(arrayNodes[i].imports) |->
                IF arrayNodes[i].imports[k] < i THEN arrayNodes[i].imports[k] ELSE 0])]

mapArraysToSetNodes(arrayNodes, sets) ==
    [i \in 1..Len(arrayNodes) |->
        Node(IF i <= Len(sets) THEN sets[i] ELSE Dedup(arrayNodes[i].collection),
             Dedup(arrayNodes[i].rest),
             arrayNodes[i].depth,
             [k \in 1..Len(arrayNodes[i].imports) |->
                IF arrayNodes[i].imports[k] > i THEN arrayNodes[i].imports[k] ELSE Undefined])]

\* -------------------------------------------- biggest-intersections-splitter.ts
\* sort is "false", "true" or "sorter".  The ArraySorter of the model is the
\* descending order (a, b) => b - a; the default sort and the operator < on
\* 1..MaxElem are the ascending order.
SortModes == {"false", "true", "sorter"}

sorter(value1, value2) == value2 - value1

defaultCompare(value1, value2) == value1 - value2

\* the comparators in use: the default order, the ArraySorter, and
\* (a, b) => b - a of the sort of counts
compare(order, value1, value2) ==
    CASE order = "default" -> defaultCompare(value1, value2)
      [] order = "sorter" -> sorter(value1, value2)
      [] order = "descending" -> value2 - value1

\* Array.prototype.sort(compare), stable
RECURSIVE SortBy(_, _)
SortBy(s, order) ==
    IF Len(s) <= 1 THEN s
    ELSE LET front == SortBy(SubSeq(s, 1, Len(s) - 1), order)
             x == s[Len(s)]
             lo == SelectSeq(front, LAMBDA y : compare(order, y, x) <= 0)
             hi == SelectSeq(front, LAMBDA y : compare(order, y, x) > 0)
         IN  lo \o <<x>> \o hi

getIntersection(array1, array2) ==
    LET a1 == IF Len(array1) < Len(array2) THEN array1 ELSE array2
        a2 == IF Len(array1) < Len(array2) THEN array2 ELSE array1
    IN  SelectSeq(a1, LAMBDA element : Has(a2, element))

\* the two-pointer merge of getIntersectionFromOrderedArrays and of
\* getIntersectionFromArraysWithOrderingFunction, from positions i and j
RECURSIVE mergeIntersection(_, _, _, _, _, _)
mergeIntersection(array1, array2, i, j, order, intersectedArray) ==
    IF ~(Len(array1) >= i /\ Len(array2) >= j) THEN intersectedArray
    ELSE LET sorting == compare(order, array1[i], array2[j])
         IN  IF sorting < 0
             THEN mergeIntersection(array1, array2, i + 1, j, order, intersectedArray)
             ELSE IF sorting > 0
             THEN mergeIntersection(array1, array2, i, j + 1, order, intersectedArray)
             ELSE mergeIntersection(array1, array2, i + 1, j + 1, order,
                                    Append(intersectedArray, array1[i]))

getIntersectionFromOrderedArrays(array1, array2) ==
    mergeIntersection(array1, array2, 1, 1, "default", <<>>)

getIntersectionFromArraysWithOrderingFunction(array1, array2) ==
    mergeIntersection(array1, array2, 1, 1, "sorter", <<>>)

intersectionFunction(array1, array2) ==
    CASE sort = "true" -> getIntersectionFromOrderedArrays(array1, array2)
      [] sort = "false" -> getIntersection(array1, array2)
      [] OTHER -> getIntersectionFromArraysWithOrderingFunction(array1, array2)

\* nextArrays.forEach((set, i) => allArrays.slice(i + 1).forEach(...)):
\* acc = [longest, longestIntersection]
\* getLongestIntersection with <= for <: a later intersection of the same
\* length replaces the earlier one
RECURSIVE getLongestIntersectionLoopLast(_, _, _, _, _)
getLongestIntersectionLoopLast(allArrays, nNext, i, j, acc) ==
    IF i > nNext THEN acc.longestIntersection
    ELSE IF j > Len(allArrays)
    THEN getLongestIntersectionLoopLast(allArrays, nNext, i + 1, i + 2, acc)
    ELSE LET intersection == intersectionFunction(allArrays[i], allArrays[j])
         IN  getLongestIntersectionLoopLast(allArrays, nNext, i, j + 1,
                IF acc.longest <= Len(intersection) /\ Len(intersection) > 0
                THEN [longest |-> Len(intersection), longestIntersection |-> intersection]
                ELSE acc)

\* getLongestIntersection that keeps the first intersection it meets, whatever
\* the length of the later ones
RECURSIVE getLongestIntersectionLoopFirst(_, _, _, _, _)
getLongestIntersectionLoopFirst(allArrays, nNext, i, j, acc) ==
    IF i > nNext THEN acc.longestIntersection
    ELSE IF j > Len(allArrays)
    THEN getLongestIntersectionLoopFirst(allArrays, nNext, i + 1, i + 2, acc)
    ELSE LET intersection == intersectionFunction(allArrays[i], allArrays[j])
         IN  getLongestIntersectionLoopFirst(allArrays, nNext, i, j + 1,
                IF acc.longest = 0 /\ Len(intersection) > 0
                THEN [longest |-> Len(intersection), longestIntersection |-> intersection]
                ELSE acc)

RECURSIVE getLongestIntersectionLoop(_, _, _, _, _)
getLongestIntersectionLoop(allArrays, nNext, i, j, acc) ==
    IF i > nNext THEN acc.longestIntersection
    ELSE IF j > Len(allArrays)
    THEN getLongestIntersectionLoop(allArrays, nNext, i + 1, i + 2, acc)
    ELSE LET intersection == intersectionFunction(allArrays[i], allArrays[j])
         IN  getLongestIntersectionLoop(allArrays, nNext, i, j + 1,
                IF acc.longest < Len(intersection)
                THEN [longest |-> Len(intersection), longestIntersection |-> intersection]
                ELSE acc)

getLongestIntersection(baseArrays, nextArrays, longest) ==
    getLongestIntersectionLoop(nextArrays \o baseArrays, Len(nextArrays), 1, 2,
        [longest |-> longest, longestIntersection |-> <<>>])

\* elementCount: Map element -> number of occurrences in all rests
RECURSIVE countElements(_, _, _)
countElements(elements, i, elementCount) ==
    IF i > Len(elements) THEN elementCount
    ELSE countElements(elements, i + 1,
            IF MapHas(elementCount, elements[i])
            THEN MapSet(elementCount, elements[i], MapGet(elementCount, elements[i]) + 1)
            ELSE MapSet(elementCount, elements[i], 1))

\* elementCountMap: Map count -> elements with that count
RECURSIVE groupByCount(_, _, _)
groupByCount(elementCount, i, elementCountMap) ==
    IF i > Len(elementCount) THEN elementCountMap
    ELSE LET count == elementCount[i].v
             element == elementCount[i].k
         IN  groupByCount(elementCount, i + 1,
                IF MapHas(elementCountMap, count)
                THEN MapSet(elementCountMap, count,
                            Append(MapGet(elementCountMap, count), element))
                ELSE MapSet(elementCountMap, count, <<element>>))

\* the elements of the buckets of counts.slice(0, -1), in the order of the two
\* nested for loops
RECURSIVE bucketElements(_, _, _)
bucketElements(elementCountMap, counts, i) ==
    IF i > Len(counts) - 1 THEN <<>>
    ELSE MapGet(elementCountMap, counts[i]) \o bucketElements(elementCountMap, counts, i + 1)

\* the extraction at lines 129-143: [nodes, result]
\* the extraction of splitArrayNodes without the filter of aNode.rest
extractLongestKeepRest(arrayNodes, longestIntersection, longest) ==
    IF Len(longestIntersection) > 0
    THEN [nodes |->
            Append(
                [i \in 1..Len(arrayNodes) |->
                    IF \A n \in 1..Len(longestIntersection) :
                            Has(arrayNodes[i].rest, longestIntersection[n])
                    THEN [arrayNodes[i] EXCEPT !.imports = Append(@, Len(arrayNodes) + 1)]
                    ELSE arrayNodes[i]],
                Node(longestIntersection, longestIntersection, 1, <<>>)),
          result |-> longest]
    ELSE [nodes |-> arrayNodes, result |-> longest]

\* the extraction of splitArrayNodes that gives the edge to the first holder only
extractLongestFirstHolder(arrayNodes, longestIntersection, longest) ==
    IF Len(longestIntersection) > 0
    THEN LET newNode == Len(arrayNodes) + 1
             holds(aNode) ==
                \A n \in 1..Len(longestIntersection) : Has(aNode.rest, longestIntersection[n])
             first == CHOOSE i \in 1..Len(arrayNodes) :
                        holds(arrayNodes[i]) /\ \A h \in 1..(i - 1) : ~holds(arrayNodes[h])
         IN  [nodes |->
                Append(
                    [i \in 1..Len(arrayNodes) |->
                        IF i = first
                        THEN [arrayNodes[i] EXCEPT
                                !.rest = SelectSeq(@, LAMBDA el : ~Has(longestIntersection, el)),
                                !.imports = Append(@, newNode)]
                        ELSE arrayNodes[i]],
                    Node(longestIntersection, longestIntersection, 1, <<>>)),
              result |-> longest]
    ELSE [nodes |-> arrayNodes, result |-> longest]

extractLongest(arrayNodes, longestIntersection, longest) ==
    IF Len(longestIntersection) > 0
    THEN LET newNode == Len(arrayNodes) + 1
             holds(aNode) ==
                \A n \in 1..Len(longestIntersection) : Has(aNode.rest, longestIntersection[n])
         IN  [nodes |->
                Append(
                    [i \in 1..Len(arrayNodes) |->
                        IF holds(arrayNodes[i])
                        THEN [arrayNodes[i] EXCEPT
                                !.rest = SelectSeq(@, LAMBDA el : ~Has(longestIntersection, el)),
                                !.imports = Append(@, newNode)]
                        ELSE arrayNodes[i]],
                    Node(longestIntersection, longestIntersection, 1, <<>>)),
              result |-> longest]
    ELSE [nodes |-> arrayNodes, result |-> longest]

\* the two nested for loops of splitArrayNodes over `elements`, from position e;
\* rests are the filtered rests, filteredArrays and baseArrays hold node positions
RECURSIVE splitLoop(_, _, _, _, _, _, _, _)
splitLoop(arrayNodes, rests, elements, e, filteredArrays, baseArrays, longest, longestIntersection) ==
    IF e > Len(elements) THEN [nodes |-> arrayNodes, result |-> 0]
    ELSE LET element == elements[e]
             considered == SelectSeq(filteredArrays, LAMBDA a : Len(rests[a]) > longest)
             nextIntersectedArrays == SelectSeq(considered, LAMBDA a : Has(rests[a], element))
             nextFilteredArrays == SelectSeq(considered, LAMBDA a : ~Has(rests[a], element))
             intersection ==
                getLongestIntersection(
                    [k \in 1..Len(baseArrays) |-> rests[baseArrays[k]]],
                    [k \in 1..Len(nextIntersectedArrays) |-> rests[nextIntersectedArrays[k]]],
                    longest)
             longest2 == IF longest < Len(intersection) THEN Len(intersection) ELSE longest
             longestIntersection2 ==
                IF longest < Len(intersection) THEN intersection ELSE longestIntersection
         IN  IF Len(nextFilteredArrays) = 0
             THEN extractLongest(arrayNodes, longestIntersection2, longest2)
             ELSE splitLoop(arrayNodes, rests, elements, e + 1, nextFilteredArrays,
                            baseArrays \o nextIntersectedArrays, longest2, longestIntersection2)

\* [nodes, result]: the node list after the call and the returned number
splitArrayNodes(arrayNodes) ==
    LET elementCount == countElements(Flatten(Rests(arrayNodes)), 1, <<>>)
        elementCountMap == groupByCount(elementCount, 1, <<>>)
        counts == SortBy(MapKeys(elementCountMap), "descending")
        singleElements == IF MapHas(elementCountMap, 1) THEN MapGet(elementCountMap, 1) ELSE <<>>
        rests == [i \in 1..Len(arrayNodes) |->
                    SelectSeq(arrayNodes[i].rest, LAMBDA element : ~Has(singleElements, element))]
    IN  IF Len(counts) > 0 /\ counts[1] = 1
        THEN [nodes |-> arrayNodes, result |-> 0]
        ELSE splitLoop(arrayNodes, rests, bucketElements(elementCountMap, counts, 1), 1,
                       [i \in 1..Len(arrayNodes) |-> i], <<>>, 0, <<>>)

\* the arrayNodes built at the start of splitArrays
initialArrayNodes(arrays) ==
    [i \in 1..Len(arrays) |->
        Node(arrays[i],
             CASE sort = "true" -> SortBy(arrays[i], "default")
               [] sort = "false" -> arrays[i]
               [] OTHER -> SortBy(arrays[i], "sorter"),
             0, <<>>)]

\* ------------------------------------------------------------ the calls
\* The caller's collections.  A set is a sequence without repetition (its
\* insertion order); an array may repeat a value.
SeqsUpTo(n) == UNION {[1..k -> Elems] : k \in 0..n}

IsSet(s) == \A i, j \in 1..Len(s) : s[i] = s[j] => i = j

IsAscending(s) == \A i, j \in 1..Len(s) : i < j => s[i] < s[j]

SetCollections == {s \in SeqsUpTo(MaxLen) : IsSet(s)}

ArrayCollections == SeqsUpTo(MaxArrayLen)

Families(collections, n) == UNION {[1..k -> collections] : k \in 0..n}

\* The weight-function pairs of the calls: the default pair, the pair of the
\* tests, and each other function once as the primary weight.
WeightPairs ==
    {<<"elementsCount", "setsCount">>,
     <<"setsCount", "elementsCount">>,
     <<"productSetsElementsCount", "elementsCount">>,
     <<"elementsCountReverse", "setsCount">>,
     <<"setsCountReverse", "elementsCountReverse">>,
     <<"productSetsElementsCountReverse", "setsCountReverse">>}

\* The Weighted splitter reads its sets through has, delete, size and the
\* sorting join only, so its input sets are taken in ascending insertion order.
InputsOf(a, e) ==
    CASE a = "Weighted" /\ e = "sets" ->
            Families({s \in SetCollections : IsAscending(s)}, MaxWeightedSets)
      [] a # "Weighted" /\ e = "sets" -> Families(SetCollections, MaxSets)
      [] OTHER -> Families(ArrayCollections, MaxSets)

\* no method of GetNodeMetrics has been called
NoMetric == [call |-> "none"]

Init ==
    /\ alg \in {"Shallow", "Biggest", "Weighted"}
    /\ entry \in {"sets", "arrays"}
    /\ sort \in IF alg = "Biggest" THEN SortModes ELSE {"false"}
    /\ \E w \in IF alg = "Weighted" THEN WeightPairs
                ELSE {<<"elementsCount", "setsCount">>} :
            primary = w[1] /\ secondary = w[2]
    /\ input \in InputsOf(alg, entry)
    /\ nodes = <<>>
    /\ idx = EmptyIndex
    /\ pc = "call"
    /\ last = <<>>
    /\ metric = NoMetric

Config == <<alg, entry, sort, primary, secondary, input>>

\* splitIntersectionsShallow(collections)
ShallowCall ==
    /\ pc = "call" /\ alg = "Shallow"
    /\ nodes' = IF entry = "arrays"
                THEN splitIntersectionsArrayShallow(input)
                ELSE splitIntersectionsSetsShallow(input)
    /\ pc' = "done"
    /\ UNCHANGED <<Config, idx, last, metric>>

\* splitArrays up to the while loop (through mapSetsToArrays for splitSets)
BiggestCall ==
    /\ pc = "call" /\ alg = "Biggest"
    /\ nodes' = initialArrayNodes(IF entry = "sets" THEN mapSetsToArrays(input) ELSE input)
    /\ pc' = "loop"
    /\ UNCHANGED <<Config, idx, last, metric>>

\* one call of splitArrayNodes that returns a positive number
BiggestPass ==
    /\ pc = "loop" /\ alg = "Biggest"
    /\ Len(nodes) < MaxNodes
    /\ LET r == splitArrayNodes(nodes)
       IN  /\ r.result > 0
           /\ nodes' = r.nodes
           /\ last' = r.nodes[Len(r.nodes)].collection
    /\ UNCHANGED <<Config, idx, pc, metric>>

\* the last call of splitArrayNodes, addMaxDepthToNodes and the return
\* (through mapArraysToSetNodes for splitSets)
BiggestReturn ==
    /\ pc = "loop" /\ alg = "Biggest"
    /\ LET r == splitArrayNodes(nodes)
           arrayNodes == addMaxDepthToNodes(r.nodes)
       IN  /\ ~(r.result > 0)
           /\ nodes' = IF entry = "sets"
                       THEN mapArraysToSetNodes(arrayNodes, input)
                       ELSE arrayNodes
    /\ pc' = "done"
    /\ UNCHANGED <<Config, idx, last, metric>>

\* splitSets up to the while loop (through mapArraysToSets for splitArrays)
WeightedCall ==
    /\ pc = "call" /\ alg = "Weighted"
    /\ LET sets == IF entry = "arrays" THEN mapArraysToSets(input) ELSE input
           setNodeMap == createSetObjMap(sets)
       IN  /\ nodes' = setNodeMap
           /\ idx' = createIndexes(Rests(setNodeMap))
    /\ pc' = "loop"
    /\ UNCHANGED <<Config, last, metric>>

\* one iteration of the while loop of splitSets
WeightedIteration ==
    /\ pc = "loop" /\ alg = "Weighted"
    /\ Len(idx.im) > 0
    /\ Len(nodes) < MaxNodes
    /\ LET r == splitSetsIteration(nodes, idx)
       IN  /\ nodes' = r.nodes
           /\ idx' = r.idx
           /\ last' = r.key
           /\ pc' = IF r.idx.err THEN "error" ELSE "loop"
    /\ UNCHANGED <<Config, metric>>

\* the loop ends and splitSets returns (through mapSetsToArrayNodes for splitArrays)
WeightedReturn ==
    /\ pc = "loop" /\ alg = "Weighted"
    /\ Len(idx.im) = 0
    /\ nodes' = IF entry = "arrays" THEN mapSetsToArrayNodes(nodes, input) ELSE nodes
    /\ pc' = "done"
    /\ UNCHANGED <<Config, idx, last, metric>>

Next ==
    \/ ShallowCall
    \/ BiggestCall
    \/ BiggestPass
    \/ BiggestReturn
    \/ WeightedCall
    \/ WeightedIteration
    \/ WeightedReturn

Spec == Init /\ [][Next]_vars

\* ============================================================= properties
Returned == pc = "done"

\* positions of the root nodes: the first Len(input) nodes of the list
Roots == 1..Len(input)

Generated == (Len(input) + 1)..Len(nodes)

\* The elements obtained from node n by replacing each import by its own rest
\* plus its replaced imports, as a sequence (each occurrence kept).  An
\* unresolved import contributes nothing; fuel bounds the walk.
RECURSIVE Reconstruct(_, _, _)
Reconstruct(ns, n, fuel) ==
    IF fuel = 0 \/ n = Undefined THEN <<>>
    ELSE ns[n].rest
         \o Flatten([k \in 1..Len(ns[n].imports) |->
                        Reconstruct(ns, ns[n].imports[k], fuel - 1)])

Reconstructed(n) == Reconstruct(nodes, n, Len(nodes))

Count(s, x) == Len(SelectSeq(s, LAMBDA y : y = x))

SameBag(s, t) == \A x \in Elems : Count(s, x) = Count(t, x)

\* C1: for set input, when a splitter has returned, the elements reconstructed
\* from every root node are exactly the elements of its input set, and the
\* root carries that set.
C1_SetReconstruction ==
    (Returned /\ entry = "sets") =>
        /\ Len(nodes) >= Len(input)
        /\ \A i \in Roots :
            /\ nodes[i].collection = input[i]
            /\ Range(Reconstructed(i)) = Range(input[i])

\* a returned Weighted run on sets in which a root imports a node that itself
\* imports a node
C1_Witness ==
    /\ Returned /\ entry = "sets" /\ alg = "Weighted"
    /\ \E i \in Roots : \E k \in 1..Len(nodes[i].imports) :
            Len(nodes[nodes[i].imports[k]].imports) > 0

\* C2: when splitArrays of the Greedy splitter has returned, no element is in
\* the rest of two distinct nodes.
C2_GreedyFixpoint ==
    (Returned /\ alg = "Biggest" /\ entry = "arrays") =>
        \A i, j \in 1..Len(nodes) :
            i # j => Range(nodes[i].rest) \cap Range(nodes[j].rest) = {}

\* the parts of node n: its rest and the collections of its imports
Parts(n) ==
    <<nodes[n].rest>>
    \o [k \in 1..Len(nodes[n].imports) |-> nodes[nodes[n].imports[k]].collection]

DisjointUnion(n) ==
    /\ \A a, b \in 1..Len(Parts(n)) :
            a # b => Range(Parts(n)[a]) \cap Range(Parts(n)[b]) = {}
    /\ UNION {Range(Parts(n)[a]) : a \in 1..Len(Parts(n))} = Range(nodes[n].collection)

\* C3: in the Weighted splitter on sets, after every extraction step and in the
\* returned list, the rest of a node and the collections of its imports are
\* pairwise disjoint and their union is the collection of the node.
C3_WeightedDisjointUnion ==
    (alg = "Weighted" /\ entry = "sets" /\ pc \in {"loop", "done"}) =>
        \A n \in 1..Len(nodes) : DisjointUnion(n)

\* C4: for array input (a value may repeat inside an array), when a splitter has
\* returned, the elements reconstructed from every root node are the input
\* array as a multiset.
C4_MultisetReconstruction ==
    (Returned /\ entry = "arrays") =>
        \A i \in Roots : SameBag(Reconstructed(i), input[i])

\* the number of input collections that hold x
Occurrences(x) == Cardinality({i \in Roots : Has(input[i], x)})

\* C5: the result of splitIntersectionsShallow: one singleton node of depth 1
\* without imports per element that is in at least two input collections, and
\* no other generated node; every root has depth 0, holds in rest exactly its
\* elements that are in one input collection only, and imports the singleton
\* nodes of its shared elements in the order of the elements in the collection.
C5_BaselineResult ==
    (Returned /\ alg = "Shallow") =>
        LET shared == {x \in Elems : Occurrences(x) >= 2}
        IN  /\ Len(nodes) = Len(input) + Cardinality(shared)
            /\ \A g \in Generated :
                /\ Len(nodes[g].collection) = 1
                /\ nodes[g].collection[1] \in shared
                /\ nodes[g].rest = nodes[g].collection
                /\ nodes[g].depth = 1
                /\ nodes[g].imports = <<>>
            /\ \A g, h \in Generated : nodes[g].collection = nodes[h].collection => g = h
            /\ \A i \in Roots :
                /\ nodes[i].depth = 0
                /\ nodes[i].rest = SelectSeq(input[i], LAMBDA x : x \notin shared)
                /\ LET own == SelectSeq(input[i], LAMBDA x : x \in shared)
                   IN  /\ Len(nodes[i].imports) = Len(own)
                       /\ \A k \in 1..Len(own) :
                            /\ nodes[i].imports[k] \in Generated
                            /\ nodes[nodes[i].imports[k]].collection = <<own[k]>>

\* the primary and the secondary weight of key J with its current participants
PrimaryOf(J) == primaryWeight(Len(split(J)), Len(MapGet(idx.ims, J)))

SecondaryOf(J) == secondaryWeight(Len(split(J)), Len(MapGet(idx.ims, J)))

\* the keys that have the maximum primary weight and, among these, the
\* maximum secondary weight
Finalists ==
    LET keys == Range(MapKeys(idx.im))
        top == {J \in keys : \A I \in keys : PrimaryOf(I) <= PrimaryOf(J)}
    IN  {J \in top : \A I \in top : SecondaryOf(I) <= SecondaryOf(J)}

\* K is the key the selection rule asks for in the current state
IsSelection(K) ==
    /\ \A J \in Range(MapKeys(idx.im)) : MapHas(idx.ims, J)
    /\ K \in Finalists
    /\ MapHas(idx.wim, PrimaryOf(K))
    /\ LET bucket == MapGet(idx.wim, PrimaryOf(K))
       IN  /\ Has(bucket, K)
           /\ \A J \in Finalists \ {K} :
                Has(bucket, J) /\ IndexOf(bucket, K) < IndexOf(bucket, J)

AtLoopHead == pc = "loop" /\ alg = "Weighted" /\ Len(idx.im) > 0

\* C6: every iteration of the loop of splitSets extracts the key with the
\* maximum primary weight (from its element count and its current number of
\* participant sets), among these the maximum secondary weight, and among these
\* the first of the weight bucket in insertion order.
C6_SelectionRule == [][(AtLoopHead /\ nodes' # nodes) => IsSelection(last')]_vars

\* an iteration has acted and the next selection has to break a tie of both weights
C6_Witness ==
    /\ AtLoopHead /\ last # <<>>
    /\ Cardinality(Finalists) >= 2

Importers(n) == {p \in 1..Len(nodes) : Has(nodes[p].imports, n)}

MaxNat(S) == CHOOSE x \in S : \A y \in S : y <= x

\* the length of the longest import path that ends in node n
RECURSIVE LongestPath(_, _)
LongestPath(n, fuel) ==
    IF fuel = 0 \/ Importers(n) = {} THEN 0
    ELSE 1 + MaxNat({LongestPath(p, fuel - 1) : p \in Importers(n)})

\* C7: in a returned list every root has depth 0; every generated node is
\* imported, and its depth is 1 plus the maximum depth of its importers, which
\* is the length of the longest import path to it; an import is deeper than
\* its importer.
C7_Depth ==
    Returned =>
        /\ \A i \in Roots : nodes[i].depth = 0
        /\ \A g \in Generated :
            /\ Importers(g) # {}
            /\ nodes[g].depth = 1 + MaxNat({nodes[p].depth : p \in Importers(g)})
            /\ nodes[g].depth = LongestPath(g, Len(nodes))
            /\ nodes[g].depth >= 1
        /\ \A n \in 1..Len(nodes) : \A k \in 1..Len(nodes[n].imports) :
            /\ nodes[n].imports[k] \in 1..Len(nodes)
            /\ nodes[nodes[n].imports[k]].depth >= nodes[n].depth + 1

\* a returned list with a generated node imported by roots and by a generated node
C7_Witness ==
    /\ Returned
    /\ \E g \in Generated :
        /\ nodes[g].depth >= 2
        /\ \E p \in Importers(g) : nodes[p].depth = 0

\* the nodes reachable from n through imports in at least one step
RECURSIVE Descendants(_, _)
Descendants(n, fuel) ==
    IF fuel = 0 \/ n \notin 1..Len(nodes) THEN {}
    ELSE LET direct == Range(nodes[n].imports)
         IN  direct \cup UNION {Descendants(m, fuel - 1) : m \in direct}

\* C8: after every extraction step and in every returned list, an import of a
\* node is a node at a greater position of the list, and no node is
\* transitively its own import.
C8_Acyclic ==
    \A n \in 1..Len(nodes) :
        /\ \A k \in 1..Len(nodes[n].imports) :
            nodes[n].imports[k] \in (n + 1)..Len(nodes)
        /\ n \notin Descendants(n, Len(nodes))

\* a node list in which a generated node imports a later node
C8_Witness ==
    \E g \in Generated : Len(nodes[g].imports) > 0 /\ last # <<>>

\* C9: after every extraction step and in every returned list, the rest of a
\* node holds no element of the collection of any of its imports.
C9_RestExcludesImports ==
    \A n \in 1..Len(nodes) : \A k \in 1..Len(nodes[n].imports) :
        LET m == nodes[n].imports[k]
        IN  m \in 1..Len(nodes) =>
                Range(nodes[n].rest) \cap Range(nodes[m].collection) = {}

\* a node with a non-empty rest has an import
C9_Witness ==
    \E n \in 1..Len(nodes) : Len(nodes[n].imports) > 0 /\ Len(nodes[n].rest) > 0

\* C10: every call of splitSets of the Weighted splitter returns.  No step of
\* a call throws, every iteration of the loop appends one node, and the loop
\* reaches the empty intersection index before the node list has MaxNodes
\* nodes: no run is cut short, every run is finite and ends in the return.
C10_WeightedTerminates ==
    [][alg = "Weighted" =>
        /\ pc' \in {"loop", "done"}
        /\ (pc = "loop" /\ pc' = "loop") => Len(nodes') = Len(nodes) + 1
        /\ (pc' = "loop" /\ Len(idx'.im) > 0) => Len(nodes') < MaxNodes]_vars

\* a Weighted call has returned after at least three iterations
C10_Witness ==
    Returned /\ alg = "Weighted" /\ Len(nodes) >= Len(input) + 3

\* the number of elements held in the rests of all nodes of the list
RECURSIVE TotalRest(_)
TotalRest(ns) == IF ns = <<>> THEN 0 ELSE Len(Head(ns).rest) + TotalRest(Tail(ns))

\* C11: the loop of splitArrays of the Greedy splitter ends.  Every pass of
\* splitArrayNodes that returns a positive value leaves strictly fewer
\* elements in the rests of all nodes than it found, and no run is cut short
\* at MaxNodes nodes: the passes of a call are finitely many.
C11_GreedyTerminates ==
    [][(alg = "Biggest" /\ pc = "loop") =>
        /\ pc' \in {"loop", "done"}
        /\ pc' = "loop" => /\ TotalRest(nodes') < TotalRest(nodes)
                           /\ Len(nodes') = Len(nodes) + 1
                           /\ Len(nodes') < MaxNodes]_vars

\* a Greedy call has returned after two passes that returned a positive value
C11_Witness ==
    Returned /\ alg = "Biggest" /\ entry = "arrays" /\ Len(nodes) >= Len(input) + 2

\* the position, in the scan of all input collections, at which element x is
\* met for the second time: the moment the Baseline splitter notes it as shared
SecondAt(x) ==
    LET scan == Flatten(input)
        again == {j \in 1..Len(scan) : scan[j] = x /\ \E i \in 1..(j - 1) : scan[i] = x}
    IN  CHOOSE j \in again : \A k \in again : j <= k

\* the generated nodes of the Baseline splitter stand in the order in which
\* their elements were noted as shared
ShallowCreationOrder ==
    \A g, h \in Generated :
        g < h => SecondAt(nodes[g].collection[1]) < SecondAt(nodes[h].collection[1])

\* C12: the returned list starts with the N root nodes, the i-th for the i-th
\* input collection, followed by the generated nodes in the order of their
\* creation.  The call puts the N roots in the list; a step of a loop leaves
\* every node at its position and appends at most one node, the node it has
\* just created; the return neither adds, drops nor moves a node.
C12_OutputOrder ==
    [][/\ pc' = "done" =>
            /\ Len(nodes') >= Len(input)
            /\ \A i \in Roots : nodes'[i].collection = input[i]
       /\ (pc = "call" /\ pc' = "loop") => Len(nodes') = Len(input)
       /\ pc = "loop" =>
            /\ Len(nodes') = Len(nodes) + (IF pc' = "loop" THEN 1 ELSE 0)
            /\ \A i \in Generated : nodes'[i].collection = nodes[i].collection
            /\ pc' = "loop" =>
                /\ \A i \in Roots : nodes'[i].collection = nodes[i].collection
                /\ nodes'[Len(nodes')].collection = last'
       /\ (alg = "Shallow" /\ pc' = "done") => ShallowCreationOrder']_vars

\* a call in array form that went through the adapters has returned two roots
\* and two generated nodes
C12_Witness ==
    /\ Returned /\ alg = "Weighted" /\ entry = "arrays"
    /\ Len(input) >= 2 /\ Len(nodes) >= Len(input) + 2

\* the collections the roots hold while the loop runs: the caller's own, or
\* the copies the adapter has made of them
WorkingCollections ==
    IF alg = "Weighted" /\ entry = "arrays" THEN mapArraysToSets(input)
    ELSE IF alg = "Biggest" /\ entry = "sets" THEN mapSetsToArrays(input)
    ELSE input

\* C13: a call leaves its input unchanged.  No step changes the input; the
\* collection of a root is never written: while the loop runs it is the
\* collection the splitter was given, and in the returned list it is the
\* caller's input collection, elements and order as given, whatever has been
\* deleted from rest.
C13_InputsUnchanged ==
    [][/\ input' = input
       /\ pc' = "loop" =>
            \A i \in Roots : nodes'[i].collection = WorkingCollections[i]
       /\ pc' = "done" =>
            \A i \in Roots : nodes'[i].collection = input[i]]_vars

\* a root has lost elements of its rest and holds the input collection, which
\* the call had to sort a copy of
C13_Witness ==
    /\ Returned /\ alg = "Biggest" /\ sort = "sorter"
    /\ \E i \in Roots :
        /\ Len(nodes[i].imports) > 0
        /\ Len(nodes[i].rest) < Len(input[i])
        /\ ~IsAscending(nodes[i].collection)
        /\ SortBy(input[i], "sorter") # input[i]

DuplicateFree == \A i \in Roots : IsSet(input[i])

\* the list `to` is the list `from` node by node: the same elements in
\* collection and in rest, the same depth, and as imports the nodes at the
\* same positions, every import resolved
Translated(from, to) ==
    /\ Len(to) = Len(from)
    /\ \A p \in 1..Len(from) :
        /\ Range(to[p].collection) = Range(from[p].collection)
        /\ Range(to[p].rest) = Range(from[p].rest)
        /\ Len(to[p].rest) = Len(from[p].rest)
        /\ to[p].depth = from[p].depth
        /\ to[p].imports = from[p].imports
        /\ \A k \in 1..Len(to[p].imports) : to[p].imports[k] \in 1..Len(to)

\* C14: for duplicate-free collections the adapters lose nothing.  The list
\* splitArrays of the Weighted splitter returns is the list splitSets has
\* produced for the corresponding sets, and the list splitSets of the Greedy
\* splitter returns is the list splitArrays has produced for the corresponding
\* arrays, node by node; the roots carry the caller's collections.
C14_AdapterLossless ==
    [][(DuplicateFree /\ pc = "loop" /\ pc' = "done") =>
        /\ (alg = "Weighted" /\ entry = "arrays") =>
            /\ Translated(nodes, nodes')
            /\ \A i \in Roots : nodes'[i].collection = input[i]
        /\ (alg = "Biggest" /\ entry = "sets") =>
            /\ Translated(addMaxDepthToNodes(splitArrayNodes(nodes).nodes), nodes')
            /\ \A i \in Roots : nodes'[i].collection = input[i]]_vars

\* the Greedy splitter has returned, for sets, a generated node that imports
\* another generated node
C14_Witness ==
    /\ Returned /\ alg = "Biggest" /\ entry = "sets"
    /\ \E g \in Generated : Len(nodes[g].imports) > 0


\* ============================================================ GetNodeMetrics
\* A quotient of the metrics, kept exact as a reduced fraction; 0 / 0 is NaN
\* and n / 0 is Infinity, as the division of JavaScript gives them.
NaN == [num |-> 0, den |-> 0]

Infinity == [num |-> 1, den |-> 0]

RECURSIVE GCD(_, _)
GCD(a, b) == IF b = 0 THEN a ELSE GCD(b, a % b)

\* a / b of two non-negative integers
Divide(a, b) ==
    IF b = 0 THEN (IF a = 0 THEN NaN ELSE Infinity)
    ELSE LET g == GCD(a, b) IN [num |-> a \div g, den |-> b \div g]

\* x + y of two quotients
Plus(x, y) ==
    IF x = NaN \/ y = NaN THEN NaN
    ELSE IF x.den = 0 \/ y.den = 0 THEN Infinity
    ELSE Divide(x.num * y.den + y.num * x.den, x.den * y.den)

\* x / n of a quotient and a non-negative integer
Over(x, n) ==
    IF x = NaN THEN NaN
    ELSE IF x.den = 0 THEN Infinity
    ELSE IF n = 0 THEN (IF x.num = 0 THEN NaN ELSE Infinity)
    ELSE Divide(x.num, x.den * n)

\* the metrics object getNodeMetric starts from
ZeroMetrics == [maxDepth |-> 0, leaves |-> 0, imports |-> 0, nodes |-> 0, avgDepthSum |-> 0]

RECURSIVE getNodeMetricRecursive(_, _, _, _)
RECURSIVE flatMapImports(_, _, _, _)

\* nodeObj.imports.flatMap(nObj => getNodeMetricRecursive(nObj, metrics,
\* depth)): the imports are walked in order, on the one metrics object
flatMapImports(ns, imports, metrics, depth) ==
    IF imports = <<>> THEN [metrics |-> metrics, elements |-> <<>>]
    ELSE LET first == getNodeMetricRecursive(ns, Head(imports), metrics, depth)
             others == flatMapImports(ns, Tail(imports), first.metrics, depth)
         IN  [metrics |-> others.metrics, elements |-> first.elements \o others.elements]

\* getNodeMetricRecursive(nodeObj, metrics, depth), nodeObj being ns[n]: the
\* metrics object after the walk and the elements collected
getNodeMetricRecursive(ns, n, metrics, depth) ==
    LET nodeObj == ns[n]
        counted == [metrics EXCEPT !.nodes = @ + 1,
                                   !.maxDepth = IF @ < depth THEN depth ELSE @]
        leafed  == IF depth > 0 /\ Len(nodeObj.imports) = 0
                   THEN [counted EXCEPT !.leaves = @ + 1, !.avgDepthSum = @ + depth]
                   ELSE counted
    IN  IF Len(nodeObj.imports) > 0
        THEN LET walked == flatMapImports(ns, nodeObj.imports,
                               [leafed EXCEPT !.imports = @ + Len(nodeObj.imports)],
                               depth + 1)
             IN  [metrics |-> walked.metrics, elements |-> nodeObj.rest \o walked.elements]
        ELSE [metrics |-> leafed, elements |-> nodeObj.rest]

\* getNodeMetric(nodeObj), nodeObj being ns[n]; error is the thrown
\* 'Node Object is not valid'
getNodeMetric(ns, n) ==
    LET walk == getNodeMetricRecursive(ns, n, ZeroMetrics, 0)
        allElements == walk.elements
        nodeElements == ns[n].collection
    IN  IF \E i \in 1..Len(nodeElements) : ~Has(allElements, nodeElements[i])
        THEN [error |-> TRUE]
        ELSE [error |-> FALSE,
              maxDepth |-> walk.metrics.maxDepth,
              leaves |-> walk.metrics.leaves,
              imports |-> walk.metrics.imports,
              nodes |-> walk.metrics.nodes,
              avgDepth |-> Divide(walk.metrics.avgDepthSum, walk.metrics.leaves)]

\* the reduce of getNodeMetrics with the maxDepth of the last root for the
\* maximum over the roots
RECURSIVE reduceMetricsLast(_)
reduceMetricsLast(allMetrics) ==
    IF allMetrics = <<>>
    THEN [maxDepth |-> 0, avgMaxDepth |-> 0, avgDepth |-> Divide(0, 1),
          leaves |-> 0, imports |-> 0, nodes |-> 0]
    ELSE LET cumulative == reduceMetricsLast(SubSeq(allMetrics, 1, Len(allMetrics) - 1))
             m == allMetrics[Len(allMetrics)]
         IN  [maxDepth |-> m.maxDepth,
              avgMaxDepth |-> cumulative.avgMaxDepth + m.maxDepth,
              avgDepth |-> Plus(cumulative.avgDepth, m.avgDepth),
              leaves |-> cumulative.leaves + m.leaves,
              imports |-> cumulative.imports + m.imports,
              nodes |-> cumulative.nodes + m.nodes]

\* allMetrics.reduce(...) of getNodeMetrics, from the zero record
RECURSIVE reduceMetrics(_)
reduceMetrics(allMetrics) ==
    IF allMetrics = <<>>
    THEN [maxDepth |-> 0, avgMaxDepth |-> 0, avgDepth |-> Divide(0, 1),
          leaves |-> 0, imports |-> 0, nodes |-> 0]
    ELSE LET cumulative == reduceMetrics(SubSeq(allMetrics, 1, Len(allMetrics) - 1))
             m == allMetrics[Len(allMetrics)]
         IN  [maxDepth |-> IF cumulative.maxDepth < m.maxDepth THEN m.maxDepth
                           ELSE cumulative.maxDepth,
              avgMaxDepth |-> cumulative.avgMaxDepth + m.maxDepth,
              avgDepth |-> Plus(cumulative.avgDepth, m.avgDepth),
              leaves |-> cumulative.leaves + m.leaves,
              imports |-> cumulative.imports + m.imports,
              nodes |-> cumulative.nodes + m.nodes]

\* a wrong elementsCount: every root collection counted as one element
elementsCountOfRoots(ns, roots) == Len(roots)

\* elementsCount of getNodeMetrics: the lengths of the root collections added
RECURSIVE elementsCountOf(_, _)
elementsCountOf(ns, roots) ==
    IF roots = <<>> THEN 0
    ELSE Len(ns[Head(roots)].collection) + elementsCountOf(ns, Tail(roots))

\* getNodeMetrics(nodeObjects); error is an error thrown by getNodeMetric
getNodeMetrics(nodeObjects) ==
    LET positions == [i \in 1..Len(nodeObjects) |-> i]
        roots == SelectSeq(positions, LAMBDA i : nodeObjects[i].depth = 0)
        generatedNodes == Len(nodeObjects) - Len(roots)
        elementsCount == elementsCountOf(nodeObjects, roots)
        allElements == UNION {Range(nodeObjects[roots[i]].collection) : i \in 1..Len(roots)}
        allMetrics == [i \in 1..Len(roots) |-> getNodeMetric(nodeObjects, roots[i])]
        rootNodeCount == Len(allMetrics)
    IN  IF \E i \in 1..Len(allMetrics) : allMetrics[i].error
        THEN [error |-> TRUE]
        ELSE LET cumulativeMetrics == reduceMetrics(allMetrics)
             IN  [error |-> FALSE,
                  allMetrics |-> allMetrics,
                  maxDepth |-> cumulativeMetrics.maxDepth,
                  avgMaxDepth |-> Divide(cumulativeMetrics.avgMaxDepth, rootNodeCount),
                  avgDepth |-> Over(cumulativeMetrics.avgDepth, rootNodeCount),
                  avgLeaves |-> Divide(cumulativeMetrics.leaves, rootNodeCount),
                  avgImports |-> Divide(cumulativeMetrics.imports, rootNodeCount),
                  avgNodes |-> Divide(cumulativeMetrics.nodes, rootNodeCount),
                  generatedNodes |-> generatedNodes,
                  rootNodes |-> rootNodeCount,
                  elementsCount |-> elementsCount,
                  uniqueElements |-> Cardinality(allElements)]

\* ---------------------------------------------- the metrics, state machine
\* Node lists handed to GetNodeMetrics that no splitter made: one root with
\* any collection and any rest, further nodes below it, import edges to later
\* nodes only (an import may be listed twice).
MaxGivenNodes == 3

MaxGivenElem == 2

MaxGivenImports == 2

GivenCollections == {s \in UNION {[1..k -> 1..MaxGivenElem] : k \in 0..MaxGivenElem} : IsAscending(s)}

GivenImports(i, n) == UNION {[1..k -> (i + 1)..n] : k \in 0..MaxGivenImports}

\* the nodes that may stand at position i of a given list of n nodes
GivenNode(i, n) == {nd \in {Node(c, r, IF i = 1 THEN 0 ELSE 1, m) : c \in GivenCollections, r \in GivenCollections, m \in GivenImports(i, n)} : i > 1 => nd.collection = nd.rest}

RECURSIVE GivenTail(_, _)
GivenTail(i, n) == IF i > n THEN {<<>>} ELSE {<<nd>> \o t : nd \in GivenNode(i, n), t \in GivenTail(i + 1, n)}

GivenNodes(n) == GivenTail(1, n)

InitGiven ==
    /\ alg = "Given"
    /\ entry = "sets"
    /\ sort = "false"
    /\ primary = "elementsCount" /\ secondary = "setsCount"
    /\ input = <<>>
    /\ nodes \in UNION {GivenNodes(n) : n \in 1..MaxGivenNodes}
    /\ idx = EmptyIndex
    /\ pc = "done"
    /\ last = <<>>
    /\ metric = NoMetric

InitMetrics == Init \/ InitGiven

\* new GetNodeMetrics().getNodeMetrics(nodes), on a returned or given list
GetNodeMetricsCall ==
    /\ pc = "done" /\ metric = NoMetric
    /\ metric' = [call |-> "getNodeMetrics", node |-> 0, result |-> getNodeMetrics(nodes)]
    /\ UNCHANGED <<Config, nodes, idx, pc, last>>

\* new GetNodeMetrics().getNodeMetric(nodes[n]), on a node of a given list
GetNodeMetricCall ==
    /\ pc = "done" /\ metric = NoMetric /\ alg = "Given"
    /\ \E n \in 1..Len(nodes) :
            metric' = [call |-> "getNodeMetric", node |-> n, result |-> getNodeMetric(nodes, n)]
    /\ UNCHANGED <<Config, nodes, idx, pc, last>>

NextMetrics ==
    \/ Next
    \/ GetNodeMetricsCall
    \/ GetNodeMetricCall

MetricsSpec == InitMetrics /\ [][NextMetrics]_vars


\* ------------------------------------------------- properties of the metrics
\* the elements met in the rests of node n and of every node reachable from n
\* through imports
ReachableElements(n) == UNION {Range(nodes[m].rest) : m \in {n} \cup Descendants(n, Len(nodes))}

\* C15: getNodeMetric raises an error exactly when the elements reachable from
\* the given node through rest and imports are not the elements of the node's
\* own collection: when an element of the collection is not reachable, and
\* also when a reachable element is not in the collection.
C15_ValidityCheck ==
    metric.call = "getNodeMetric" =>
        (metric.result.error <=>
            ReachableElements(metric.node) # Range(nodes[metric.node].collection))

\* what getNodeMetric does check: an error exactly when an element of the
\* node's collection is not reachable
C15_ChecksMissingOnly ==
    metric.call = "getNodeMetric" =>
        (metric.result.error <=>
            ~(Range(nodes[metric.node].collection) \subseteq ReachableElements(metric.node)))


RECURSIVE TotalVisits(_)
TotalVisits(counts) == IF counts = <<>> THEN 0 ELSE Head(counts) + TotalVisits(Tail(counts))

\* the visits the walk from node n pays to nodes without imports, n included
RECURSIVE LeafVisits(_, _)
LeafVisits(n, fuel) ==
    IF fuel = 0 THEN 0
    ELSE IF nodes[n].imports = <<>> THEN 1
    ELSE TotalVisits([k \in 1..Len(nodes[n].imports) |-> LeafVisits(nodes[n].imports[k], fuel - 1)])

\* the depth-0 nodes of the list, in list order
RootPositions == SelectSeq([i \in 1..Len(nodes) |-> i], LAMBDA i : nodes[i].depth = 0)

\* C16: getNodeMetric reports as leaves the number of visited nodes without
\* imports, the root being one of them when it has no imports: a root
\* without imports yields leaves = 1.  Stated for a direct call and for the
\* call getNodeMetrics makes for each root.
C16_LeafCount ==
    /\ (metric.call = "getNodeMetric" /\ ~metric.result.error) =>
            metric.result.leaves = LeafVisits(metric.node, Len(nodes))
    /\ (metric.call = "getNodeMetrics" /\ ~metric.result.error) =>
            \A i \in 1..Len(RootPositions) :
                metric.result.allMetrics[i].leaves = LeafVisits(RootPositions[i], Len(nodes))

\* what getNodeMetric does report: the visits to nodes without imports below
\* the root, 0 for a root without imports
C16_LeavesBelowRoot ==
    /\ (metric.call = "getNodeMetric" /\ ~metric.result.error) =>
            metric.result.leaves =
                IF nodes[metric.node].imports = <<>> THEN 0
                ELSE LeafVisits(metric.node, Len(nodes))
    /\ (metric.call = "getNodeMetrics" /\ ~metric.result.error) =>
            \A i \in 1..Len(RootPositions) :
                metric.result.allMetrics[i].leaves =
                    IF nodes[RootPositions[i]].imports = <<>> THEN 0
                    ELSE LeafVisits(RootPositions[i], Len(nodes))


RECURSIVE TotalSize(_)
TotalSize(collections) == IF collections = <<>> THEN 0 ELSE Len(Head(collections)) + TotalSize(Tail(collections))

\* C17: for the list a splitter returned for N input collections,
\* getNodeMetrics returns (it does not throw) rootNodes = N, generatedNodes =
\* list length - N, elementsCount = the sum of the sizes of the input
\* collections, uniqueElements = the number of distinct elements of the input.
C17_MetricCounts ==
    (metric.call = "getNodeMetrics" /\ alg # "Given") =>
        /\ ~metric.result.error
        /\ metric.result.rootNodes = Len(input)
        /\ metric.result.generatedNodes = Len(nodes) - Len(input)
        /\ metric.result.elementsCount = TotalSize(input)
        /\ metric.result.uniqueElements = Cardinality(Range(Flatten(input)))

\* the metrics of a Weighted result with several roots, several generated
\* nodes and shared elements
C17_Witness ==
    /\ metric.call = "getNodeMetrics" /\ alg = "Weighted"
    /\ ~metric.result.error
    /\ metric.result.rootNodes >= 3
    /\ metric.result.generatedNodes >= 2
    /\ metric.result.elementsCount > metric.result.uniqueElements
    /\ metric.result.uniqueElements >= 2


\* ------------------------------------------------------- degenerate input
Degenerate == input = <<>> \/ \E i \in Roots : input[i] = <<>>

\* C18: no splitter raises on an empty family or on a family that holds
\* collections without elements; for the empty family the loop is left at once
\* and the empty list is returned; in every returned list each input without
\* elements has its root node, with depth 0, empty rest and no imports.
C18_DegenerateInput ==
    [][/\ Degenerate => pc' # "error"
       /\ (input = <<>> /\ pc = "loop") => pc' = "done"
       /\ (input = <<>> /\ pc' = "done") => nodes' = <<>>
       /\ pc' = "done" =>
            \A i \in Roots :
                input[i] = <<>> =>
                    /\ i <= Len(nodes')
                    /\ nodes'[i].collection = <<>>
                    /\ nodes'[i].depth = 0
                    /\ nodes'[i].rest = <<>>
                    /\ nodes'[i].imports = <<>>]_vars

\* a returned Weighted run whose first input is empty and whose other inputs
\* share elements
C18_Witness ==
    /\ Returned /\ alg = "Weighted" /\ entry = "sets"
    /\ Len(input) >= 3 /\ input[1] = <<>>
    /\ Len(nodes) > Len(input)

\* a splitter has returned for the empty family
C18_EmptyFamilyReturned == Returned /\ input = <<>> /\ nodes = <<>> /\ alg \in {"Shallow", "Biggest", "Weighted"}


\* ------------------------------------------- the indexes of the Weighted splitter
\* the loop test of splitSets is about to be evaluated
LoopStart == pc = "loop" /\ alg = "Weighted"

\* C19: at the start of every iteration of the loop of splitSets, for every key
\* K of the intersection index and every pair (S1, S2) recorded under K, the
\* intersection of the current contents of S1 and S2 is the element group of K.
C19_NoStaleEntries ==
    LoopStart =>
        \A e \in 1..Len(idx.im) :
            \A p \in 1..Len(idx.im[e].v) :
                LET pair == idx.im[e].v[p]
                IN  Range(intersectSets(nodes[pair[1]].rest, nodes[pair[2]].rest))
                        = Range(split(idx.im[e].k))


\* the same under weight functions that extract more elements first
C19_NoStaleEntriesMostElementsFirst == primary = "elementsCount" => C19_NoStaleEntries


\* the keys met anywhere in the four indexes
IndexKeys ==
    Range(MapKeys(idx.im)) \cup Range(MapKeys(idx.ims))
    \cup UNION {Range(idx.s2i[i].v) : i \in 1..Len(idx.s2i)}
    \cup UNION {Range(idx.wim[i].v) : i \in 1..Len(idx.wim)}

\* the sets recorded as participants of key K
Participants(K) == IF MapHas(idx.ims, K) THEN Range(MapKeys(MapGet(idx.ims, K))) ELSE {}

\* the number of pairs recorded under K that contain set S
PairsWith(K, S) == Len(SelectSeq(MapGet(idx.im, K), LAMBDA pair : pair[1] = S \/ pair[2] = S))

\* the weights of the buckets that hold key K
BucketsOf(K) == {idx.wim[i].k : i \in {j \in 1..Len(idx.wim) : Has(idx.wim[j].v, K)}}

PairIndexMatchesMultiplicityIndex == Range(MapKeys(idx.im)) = Range(MapKeys(idx.ims))

MultiplicityIsPairCount ==
    \A K \in Range(MapKeys(idx.im)) \cap Range(MapKeys(idx.ims)) :
        \A S \in 1..Len(nodes) :
            IF S \in Participants(K)
            THEN /\ MapGet(MapGet(idx.ims, K), S) >= 1
                 /\ MapGet(MapGet(idx.ims, K), S) = PairsWith(K, S)
            ELSE PairsWith(K, S) = 0

ReverseIndexMatchesParticipants ==
    \A K \in IndexKeys :
        \A S \in 1..Len(nodes) :
            (MapHas(idx.s2i, S) /\ Has(MapGet(idx.s2i, S), K)) <=> S \in Participants(K)

OneWeightBucket ==
    /\ \A K \in Range(MapKeys(idx.ims)) :
            BucketsOf(K) = {primaryWeight(Len(split(K)), Cardinality(Participants(K)))}
    /\ \A i \in 1..Len(idx.wim) : idx.wim[i].v # <<>>

\* C20: at the start of every iteration of the loop of splitSets (i) the pair
\* index and the multiplicity index have the same keys; (ii) the multiplicity
\* of a set under a key is the number of the key's pairs that contain the set,
\* and only sets of multiplicity at least 1 are present; (iii) a key is in the
\* reverse index of a set exactly when the set is a participant of the key;
\* (iv) every key is in exactly one weight bucket, the one of its primary
\* weight, and no bucket is empty.
C20_IndexesConsistent ==
    LoopStart =>
        /\ PairIndexMatchesMultiplicityIndex
        /\ MultiplicityIsPairCount
        /\ ReverseIndexMatchesParticipants
        /\ OneWeightBucket


\* the loop of splitSets starts a further iteration after an extraction, with
\* several keys left and a set that is in two pairs of one key
C20_Witness ==
    /\ LoopStart /\ Len(nodes) > Len(input)
    /\ Len(idx.im) >= 2
    /\ \E K \in Range(MapKeys(idx.ims)) : \E S \in Participants(K) : PairsWith(K, S) >= 2


\* C21: splitSets never raises.  At the start of every iteration the weight
\* index is non-empty when the pair index is non-empty, and every entry the
\* iteration looks up (the highest bucket and its first key in
\* getHighestWeightIntersection, the participants of the selected key, the
\* reverse-index and multiplicity entries in getOtherAffectedIntersections, the
\* entries read by removeUpdatedFromMaps, removeOtherAffectedSetFromMaps,
\* removeFromSetOrDeleteFromMap and addUpdateToMaps) exists when it is read.
C21_NoError ==
    alg = "Weighted" =>
        /\ pc # "error"
        /\ ~idx.err
        /\ AtLoopHead =>
            /\ Len(idx.wim) > 0
            /\ \A i \in 1..Len(idx.wim) : idx.wim[i].v # <<>>
            /\ LET sel == getHighestWeightIntersection(idx.wim, idx.ims)
               IN  /\ ~sel.err
                   /\ MapHas(idx.ims, sel.key)
                   /\ MapHas(idx.im, sel.key)
                   /\ ~getOtherAffectedIntersections(MapKeys(MapGet(idx.ims, sel.key)), idx.s2i, sel.key, idx.ims).err
            /\ ~splitSetsIteration(nodes, idx).idx.err

\* the loop of splitSets starts a further iteration after an extraction, under
\* weights other than the default ones, with other-affected intersections at hand
C21_Witness ==
    /\ AtLoopHead /\ primary # "elementsCount"
    /\ Len(nodes) >= Len(input) + 1
    /\ LET sel == getHighestWeightIntersection(idx.wim, idx.ims)
       IN  getOtherAffectedIntersections(MapKeys(MapGet(idx.ims, sel.key)), idx.s2i, sel.key, idx.ims).otherAffectedIntersections # <<>>


\* the pair of sets i and j is recorded under some key of the pair index
Recorded(i, j) ==
    \E e \in 1..Len(idx.im) :
        \E p \in 1..Len(idx.im[e].v) :
            idx.im[e].v[p] = <<i, j>> \/ idx.im[e].v[p] = <<j, i>>

AllPairsRecorded ==
    \A i, j \in 1..Len(nodes) :
        (i < j /\ intersectSets(nodes[i].rest, nodes[j].rest) # <<>>) => Recorded(i, j)

RestsPartition ==
    /\ \A i, j \in 1..Len(nodes) :
            i # j => Range(nodes[i].rest) \cap Range(nodes[j].rest) = {}
    /\ UNION {Range(nodes[i].rest) : i \in 1..Len(nodes)} = Range(Flatten(input))

\* C22: at the start of every iteration of the loop of splitSets every pair of
\* distinct sets with a common element is recorded in the intersection index;
\* when splitSets returns, the rests of the returned nodes are pairwise
\* disjoint and every input element is in the rest of exactly one node.
C22_CompleteExtraction ==
    /\ LoopStart => AllPairsRecorded
    /\ (Returned /\ alg = "Weighted") => RestsPartition

\* a Weighted call has returned a list in which the collection of an import
\* overlaps another part of its importer
C22_Witness ==
    /\ Returned /\ alg = "Weighted" /\ entry = "sets"
    /\ Len(nodes) >= Len(input) + 2
    /\ \E n \in 1..Len(nodes) : ~DisjointUnion(n)


\* an iteration of the loop of splitSets has extracted a group
Extraction == AtLoopHead /\ pc' = "loop" /\ Len(nodes') = Len(nodes) + 1

\* C23: in every extraction step of splitSets with extracted group K, a node
\* gains an import edge to the new node only if its rest held every element of
\* K before the step; a node that gains the edge loses exactly the elements of
\* K from its rest; rest and imports of every other node are unchanged.
C23_OnlyHoldersChange ==
    [][Extraction =>
        LET newNode == Len(nodes')
            K == Range(split(last'))
        IN  \A n \in 1..Len(nodes) :
                IF Has(nodes'[n].imports, newNode)
                THEN /\ K \subseteq Range(nodes[n].rest)
                     /\ Range(nodes'[n].rest) = Range(nodes[n].rest) \ K
                     /\ nodes'[n].imports = Append(nodes[n].imports, newNode)
                ELSE /\ nodes'[n].rest = nodes[n].rest
                     /\ nodes'[n].imports = nodes[n].imports]_vars

\* the same under weight functions that extract more elements first
C23_OnlyHoldersChangeMostElementsFirst ==
    [][(Extraction /\ primary = "elementsCount") =>
        LET newNode == Len(nodes')
            K == Range(split(last'))
        IN  \A n \in 1..Len(nodes) :
                IF Has(nodes'[n].imports, newNode)
                THEN /\ K \subseteq Range(nodes[n].rest)
                     /\ Range(nodes'[n].rest) = Range(nodes[n].rest) \ K
                     /\ nodes'[n].imports = Append(nodes[n].imports, newNode)
                ELSE /\ nodes'[n].rest = nodes[n].rest
                     /\ nodes'[n].imports = nodes[n].imports]_vars


GreedyExtraction == alg = "Biggest" /\ pc = "loop" /\ pc' = "loop"

\* the size of the largest intersection of the rests of two distinct nodes
LargestPairwise ==
    MaxNat({0} \cup {Len(intersectionFunction(nodes[pair[1]].rest, nodes[pair[2]].rest)) :
                        pair \in {q \in (1..Len(nodes)) \X (1..Len(nodes)) : q[1] # q[2]}})

\* the elements a pass goes through: the buckets by descending occurrence
\* count without the last bucket, each in bucket order
PassElements ==
    LET elementCountMap == groupByCount(countElements(Flatten(Rests(nodes)), 1, <<>>), 1, <<>>)
    IN  bucketElements(elementCountMap, SortBy(MapKeys(elementCountMap), "descending"), 1)

\* the position in PassElements of the first element that node a holds in its
\* rest, 0 if there is none
EntryStep(a) ==
    LET steps == {t \in 1..Len(PassElements) : Has(nodes[a].rest, PassElements[t])}
    IN  IF steps = {} THEN 0 ELSE CHOOSE t \in steps : \A u \in steps : t <= u

\* the nodes that enter the comparison at step t, in list order
EnteringAt(t) == SelectSeq([a \in 1..Len(nodes) |-> a], LAMBDA a : EntryStep(a) = t)

\* the nodes that entered before step t, in the order of their entry
RECURSIVE EnteredBefore(_)
EnteredBefore(t) == IF t <= 1 THEN <<>> ELSE EnteredBefore(t - 1) \o EnteringAt(t - 1)

\* the pairs compared at step t: each entering node with the entering nodes
\* after it, then with the nodes that entered before
RECURSIVE PairsFrom(_, _)
PairsFrom(entering, before) ==
    IF entering = <<>> THEN <<>>
    ELSE LET partners == Tail(entering) \o before
         IN  [k \in 1..Len(partners) |-> <<Head(entering), partners[k]>>]
             \o PairsFrom(Tail(entering), before)

RECURSIVE PassPairsFrom(_)
PassPairsFrom(t) ==
    IF t > Len(PassElements) THEN <<>>
    ELSE PairsFrom(EnteringAt(t), EnteredBefore(t)) \o PassPairsFrom(t + 1)

\* the intersections of the pass in the order in which they are met
MetIntersections ==
    LET pairs == PassPairsFrom(1)
    IN  [k \in 1..Len(pairs) |->
            intersectionFunction(nodes[pairs[k][1]].rest, nodes[pairs[k][2]].rest)]

C26_GreedyStep ==
    [][GreedyExtraction =>
        LET newNode == Len(nodes')
            I == nodes'[newNode].collection
            gaining == {n \in 1..Len(nodes) : Range(I) \subseteq Range(nodes[n].rest)}
        IN  /\ newNode = Len(nodes) + 1
            /\ I # <<>>
            /\ nodes'[newNode].rest = I
            /\ nodes'[newNode].imports = <<>>
            /\ \A n \in gaining :
                    /\ nodes'[n].imports = Append(nodes[n].imports, newNode)
                    /\ nodes'[n].rest = SelectSeq(nodes[n].rest, LAMBDA el : el \notin Range(I))
            /\ \A n \in (1..Len(nodes)) \ gaining :
                    /\ nodes'[n].imports = nodes[n].imports
                    /\ nodes'[n].rest = nodes[n].rest
            /\ \A n \in 1..Len(nodes) : nodes'[n].collection = nodes[n].collection
            /\ Cardinality(gaining) >= 2]_vars

\* the Greedy splitter has extracted a group that some nodes held, keeping
\* other elements, while another node with a non-empty rest did not
C26_Witness ==
    /\ alg = "Biggest" /\ pc = "loop"
    /\ Len(nodes) > Len(input)
    /\ Cardinality(Importers(Len(nodes))) >= 2
    /\ \E n \in 1..(Len(nodes) - 1) : n \notin Importers(Len(nodes)) /\ nodes[n].rest # <<>>
    /\ \E n \in Importers(Len(nodes)) : nodes[n].rest # <<>>


Selected == getHighestWeightIntersection(idx.wim, idx.ims)

Participating == MapKeys(MapGet(idx.ims, Selected.key))

OtherAffected == getOtherAffectedIntersections(Participating, idx.s2i, Selected.key, idx.ims)

AfterRemoval == removeUpdatedFromMaps([im |-> idx.im, ims |-> idx.ims, s2i |-> idx.s2i, wim |-> idx.wim, err |-> FALSE, pairs |-> <<>>], Selected.key, Participating, OtherAffected.otherAffectedIntersections, OtherAffected.otherAffectedSets, Selected.weight)

\* the drop condition of removeUpdatedFromMaps for a pair
Dropped(pair) ==
    \/ Has(Participating, pair[1])
    \/ Has(Participating, pair[2])
    \/ (Has(OtherAffected.otherAffectedSets, pair[1]) /\ Has(OtherAffected.otherAffectedSets, pair[2]))

\* C28: in every extraction step of the Weighted splitter every pair of every
\* other-affected intersection satisfies the drop condition of
\* removeUpdatedFromMaps; after removeUpdatedFromMaps no other-affected
\* intersection is left in the pair index, the multiplicity index, the reverse
\* index or a weight bucket, and all of its pairs are in the list to re-test.
C28_OtherAffectedRemoved ==
    AtLoopHead =>
        \A K \in Range(OtherAffected.otherAffectedIntersections) :
            /\ \A p \in 1..Len(MapGet(idx.im, K)) :
                    /\ Dropped(MapGet(idx.im, K)[p])
                    /\ Has(AfterRemoval.pairs, MapGet(idx.im, K)[p])
            /\ ~MapHas(AfterRemoval.im, K)
            /\ ~MapHas(AfterRemoval.ims, K)
            /\ \A i \in 1..Len(AfterRemoval.s2i) : ~Has(AfterRemoval.s2i[i].v, K)
            /\ \A i \in 1..Len(AfterRemoval.wim) : ~Has(AfterRemoval.wim[i].v, K)

\* an iteration starts in which an other-affected intersection has a pair of
\* two sets that are both only otherwise affected
C28_Witness ==
    /\ AtLoopHead
    /\ \E K \in Range(OtherAffected.otherAffectedIntersections) :
            \E p \in 1..Len(MapGet(idx.im, K)) :
                LET pair == MapGet(idx.im, K)[p]
                IN  ~Has(Participating, pair[1]) /\ ~Has(Participating, pair[2])


\* the largest depth field of the list, 0 for the empty list
LargestDepth == MaxNat({0} \cup {nodes[i].depth : i \in 1..Len(nodes)})

\* C29: for the list a splitter returned, the maxDepth that getNodeMetrics
\* reports from its walk through the imports of every depth-0 node is the
\* largest depth field of the list.
C29_TraversalDepth ==
    (metric.call = "getNodeMetrics" /\ alg # "Given") =>
        /\ ~metric.result.error
        /\ metric.result.maxDepth = LargestDepth

\* the metrics of a returned list of depth 2 or more in which some root
\* reaches a smaller depth than another root
C29_Witness ==
    /\ metric.call = "getNodeMetrics" /\ alg # "Given"
    /\ ~metric.result.error
    /\ metric.result.maxDepth >= 2
    /\ \E i \in 1..Len(metric.result.allMetrics) :
            metric.result.allMetrics[i].maxDepth < metric.result.maxDepth


SharedNodes ==
    /\ \A g \in 1..Len(nodes) : nodes[g].depth > 0 => Cardinality(Importers(g)) >= 2
    /\ \A n \in 1..Len(nodes) : IsSet(nodes[n].imports)

\* C30: in the list returned by a splitter, for set input and for sequence
\* input, every generated node (depth greater than 0) is an import of at least
\* two distinct nodes, and no node lists the same import twice.
C30_GeneratedNodesShared == Returned => SharedNodes

\* the same for input collections without a repeated value
C30_GeneratedNodesSharedDuplicateFree == (Returned /\ DuplicateFree) => SharedNodes

====
